---- MODULE Spec2Model ----
(***************************************************************************)
(* Community tool-lending tracker: Inventory (AdministradorImplementos),   *)
(* Member registry (ControladorMiembros) and the assignment lifecycle      *)
(* (GestorAsignaciones driven by PantallasAsignaciones).                   *)
(*                                                                         *)
(* Every handler of the interactive screens is a pure operator from the    *)
(* program state and the texts typed at its prompts to a result record     *)
(* [est, salida, acciones, fallos, ajuste]: the state it leaves, the       *)
(* message it prints, the log entries it writes and what its call of       *)
(* ajustar_stock returned.  The actions apply these operators.             *)
(***************************************************************************)
EXTENDS Integers, Sequences, FiniteSets, TLC

(* ---------------- bounds of the model ---------------- *)
\* largest stock typed at registration or edit
MaxStock == 2
\* edits may type a stock as low as -MaxNeg
MaxNeg == 2
\* largest quantity typed at Create
MaxQty == 2

ImplIds == {"T1"}
MiembroIds == {"M1"}
\* the role plays no part in lending: members are enrolled as residents here
TiposAlta == {"1"}
AsigIds == {"A1", "A2"}

(* ---------------- texts typed at the prompts ---------------- *)
\* A text typed where the code calls int(...) / float(...): empty, not a
\* number, or the decimal text of val.
Texto(tipo, val) == [tipo |-> tipo, val |-> val]
TextosNoNumericos == {Texto("vacio", 0), Texto("txt", 0)}
TextosCantidad == {Texto("int", v) : v \in (0 - 1)..MaxQty} \cup {Texto("txt", 0)}
TextosStockAlta == {Texto("int", v) : v \in (0 - 1)..MaxStock} \cup {Texto("txt", 0)}
TextosStockEdicion == {Texto("int", v) : v \in (0 - MaxNeg)..MaxStock} \cup TextosNoNumericos
TextosValor == {Texto("int", 10), Texto("int", 0 - 1)}
OpcionesEstado == {"1", "2", "3", "4", ""}

\* A date text "y-m-d" is modelled by its three numeric fields.
FechaTxt(y, m, d) == <<y, m, d>>
FechasSalida == {FechaTxt(2025, 1, 10), FechaTxt(2025, 2, 30)}
FechasRetorno == {FechaTxt(2025, 1, 10), FechaTxt(2025, 2, 30)}
\* typed at Extend: the due dates of Create, a later one, and a malformed
\* text that reads as earlier than all of them
FechasExtension == FechasRetorno \cup {FechaTxt(2025, 1, 15), FechaTxt(2024, 13, 1)}

\* what obtener_fecha_actual may return: days around the due dates, in
\* the year before and in the month after
FechasHoy ==
    {FechaTxt(2024, 12, 31), FechaTxt(2025, 1, 10), FechaTxt(2025, 1, 11),
     FechaTxt(2025, 1, 15), FechaTxt(2025, 1, 16), FechaTxt(2025, 2, 1)}

(* ---------------- nucleo_sistema.Utilidades ---------------- *)
EsBisiesto(y) == (y % 4 = 0 /\ y % 100 # 0) \/ y % 400 = 0

DiasDelMes(y, m) ==
    IF m = 2 THEN (IF EsBisiesto(y) THEN 29 ELSE 28)
    ELSE IF m \in {4, 6, 9, 11} THEN 30 ELSE 31

\* datetime.strptime(texto, "%Y-%m-%d") succeeds
validar_fecha(texto_fecha) ==
    /\ texto_fecha[1] \in 1..9999
    /\ texto_fecha[2] \in 1..12
    /\ texto_fecha[3] \in 1..DiasDelMes(texto_fecha[1], texto_fecha[2])

Ordinal(f) == f[1] * 10000 + f[2] * 100 + f[3]

comparar_fechas(fecha1, fecha2) ==
    IF Ordinal(fecha1) < Ordinal(fecha2) THEN 0 - 1
    ELSE IF Ordinal(fecha1) > Ordinal(fecha2) THEN 1
    ELSE 0

\* one of the two strptime calls of comparar_fechas raises ValueError
comparar_fechas_lanza(fecha1, fecha2) ==
    ~validar_fecha(fecha1) \/ ~validar_fecha(fecha2)

\* what reaches the user of an exception no handler catches
EXC_VALUE_ERROR == "ValueError"

(* ---------------- nucleo_sistema.RepositorioBase ---------------- *)
Formatos == {"txt", "json", "csv"}

NadaEscrito ==
    [resultado |-> [f \in Formatos |-> FALSE],
     archivos |-> [f \in Formatos |-> [escrito |-> FALSE, datos |-> <<>>]]]

\* one try block of persistir_multiformato: the write of formato either
\* goes through or raises (formato \in fallan) and is caught on the spot
EscribirFormato(r, formato, datos, fallan) ==
    IF formato \in fallan THEN r
    ELSE [r EXCEPT !.resultado[formato] = TRUE,
                   !.archivos[formato] = [escrito |-> TRUE, datos |-> datos]]

\* faulty variant of persistir_multiformato, the three writes sharing one
\* try block: the first that raises leaves the later ones unattempted
persistir_multiformato_un_try(datos, fallan) ==
    LET orden == <<"txt", "json", "csv">>
        hechos == {orden[i] : i \in {k \in 1..3 : \A m \in 1..k : orden[m] \notin fallan}}
    IN  [resultado |-> [f \in Formatos |-> f \in hechos],
         archivos |-> [f \in Formatos |->
             IF f \in hechos THEN [escrito |-> TRUE, datos |-> datos]
             ELSE [escrito |-> FALSE, datos |-> <<>>]]]

\* fallan: the formats whose write meets an I/O error in this call
persistir_multiformato(datos, fallan) ==
    EscribirFormato(EscribirFormato(EscribirFormato(NadaEscrito, "txt", datos, fallan), "json", datos, fallan), "csv", datos, fallan)

(* ---------------- modulo_implementos.Implemento ---------------- *)
ESTADOS_VALIDOS == {"disponible", "prestado", "danado", "mantenimiento"}

Implemento(identificador, stock, condicion) ==
    [identificador |-> identificador, stock |-> stock, condicion |-> condicion]

\* faulty variant of ajustar_stock: the negative result is not rejected
ajustar_stock_sin_rechazo(impl, cantidad) ==
    [ret |-> TRUE, impl |-> [impl EXCEPT !.stock = impl.stock + cantidad]]

ajustar_stock(impl, cantidad) ==
    LET nuevo_stock == impl.stock + cantidad
    IN  IF nuevo_stock < 0
        THEN [ret |-> FALSE, impl |-> impl]
        ELSE [ret |-> TRUE, impl |-> [impl EXCEPT !.stock = nuevo_stock]]

\* faulty variant of hay_disponibilidad: the condition is not looked at
hay_disponibilidad_solo_stock(impl, cantidad_solicitada) ==
    impl.stock >= cantidad_solicitada

\* faulty variant of hay_disponibilidad: > in place of >=
hay_disponibilidad_estricta(impl, cantidad_solicitada) ==
    impl.stock > cantidad_solicitada /\ impl.condicion = "disponible"

hay_disponibilidad(impl, cantidad_solicitada) ==
    impl.stock >= cantidad_solicitada /\ impl.condicion = "disponible"

marcar_condicion(impl, nueva_condicion) ==
    IF nueva_condicion \in ESTADOS_VALIDOS
    THEN [impl EXCEPT !.condicion = nueva_condicion]
    ELSE impl

(* ---------------- program state ---------------- *)
VARIABLES
    coleccion,        \* AdministradorImplementos.coleccion : Seq(Implemento)
    ids_en_uso,       \* AdministradorImplementos.ids_en_uso
    registro,         \* ControladorMiembros.registro : Seq(Miembro)
    codigos_usados,   \* ControladorMiembros.codigos_usados
    lista,            \* GestorAsignaciones.lista : Seq(Asignacion)
    ids_usados,       \* GestorAsignaciones.ids_usados
    caido,            \* an uncaught exception has ended the program
    pendiente         \* <<asignacion>> while proceso_creacion stands between
                      \* crear and ajustar_stock, <<>> at the menus

vars == <<coleccion, ids_en_uso, registro, codigos_usados, lista, ids_usados, caido, pendiente>>

Actual ==
    [coleccion |-> coleccion, ids_en_uso |-> ids_en_uso,
     registro |-> registro, codigos_usados |-> codigos_usados,
     lista |-> lista, ids_usados |-> ids_usados]

\* Result of a handler: the state it leaves, the message it prints, the
\* number of registrar_accion / registrar_fallo entries it writes and what
\* its call of ajustar_stock (if any) returned.
Res(est, salida, acciones, fallos, ajuste) ==
    [est |-> est, salida |-> salida, acciones |-> acciones, fallos |-> fallos,
     ajuste |-> ajuste]

\* index of the first element of s with that identificador, 0 for None
PrimerIndice(s, identificador) ==
    LET S == {k \in 1..Len(s) : s[k].identificador = identificador}
    IN  IF S = {} THEN 0 ELSE CHOOSE k \in S : \A j \in S : k <= j

\* list.remove(s[k])
Quitar(s, k) == [j \in 1..(Len(s) - 1) |-> IF j < k THEN s[j] ELSE s[j + 1]]

(* ---------------- modulo_implementos.AdministradorImplementos ---------------- *)
buscar_por_id(est, identificador) == PrimerIndice(est.coleccion, identificador)

agregar_nuevo(est, implemento) ==
    IF implemento.identificador \in est.ids_en_uso
    THEN [ret |-> FALSE, est |-> est, acciones |-> 0, fallos |-> 1]
    ELSE [ret |-> TRUE,
          est |-> [est EXCEPT !.coleccion = Append(@, implemento),
                              !.ids_en_uso = @ \cup {implemento.identificador}],
          acciones |-> 1, fallos |-> 0]

\* nuevos_datos is a dict: claves is its key set
modificar_existente(est, identificador, nuevos_datos) ==
    LET k == buscar_por_id(est, identificador)
    IN  IF k = 0
        THEN [ret |-> FALSE, est |-> est, acciones |-> 0]
        ELSE LET i0 == est.coleccion[k]
                 i1 == IF "stock" \in nuevos_datos.claves
                       THEN [i0 EXCEPT !.stock = nuevos_datos.stock] ELSE i0
                 i2 == IF "condicion" \in nuevos_datos.claves
                       THEN [i1 EXCEPT !.condicion = nuevos_datos.condicion] ELSE i1
             IN  [ret |-> TRUE, est |-> [est EXCEPT !.coleccion[k] = i2],
                  acciones |-> 1]

\* faulty variant of eliminar_del_sistema: the id stays in ids_en_uso
eliminar_del_sistema_sin_liberar(est, identificador) ==
    LET k == buscar_por_id(est, identificador)
    IN  IF k = 0
        THEN [ret |-> FALSE, est |-> est, acciones |-> 0]
        ELSE [ret |-> TRUE,
              est |-> [est EXCEPT !.coleccion = Quitar(@, k)],
              acciones |-> 1]

eliminar_del_sistema(est, identificador) ==
    LET k == buscar_por_id(est, identificador)
    IN  IF k = 0
        THEN [ret |-> FALSE, est |-> est, acciones |-> 0]
        ELSE [ret |-> TRUE,
              est |-> [est EXCEPT !.coleccion = Quitar(@, k),
                                  !.ids_en_uso = @ \ {identificador}],
              acciones |-> 1]

(* ---------------- modulo_implementos.InterfazImplementos ---------------- *)
estados_map(opcion_estado) ==
    CASE opcion_estado = "1" -> "disponible"
      [] opcion_estado = "2" -> "prestado"
      [] opcion_estado = "3" -> "danado"
      [] opcion_estado = "4" -> "mantenimiento"
      [] OTHER -> "None"

impl_proceso_creacion(est, id_impl, cantidad_txt, opcion_estado, valor_txt) ==
    IF id_impl \in est.ids_en_uso
    THEN Res(est, "Este codigo ya esta en uso", 0, 1, "ninguno")
    ELSE IF cantidad_txt.tipo # "int"
    THEN Res(est, "Cantidad invalida", 0, 0, "ninguno")
    ELSE IF cantidad_txt.val < 0
    THEN Res(est, "La cantidad no puede ser negativa", 0, 0, "ninguno")
    ELSE IF valor_txt.tipo # "int"
    THEN Res(est, "Valor invalido", 0, 0, "ninguno")
    ELSE IF valor_txt.val < 0
    THEN Res(est, "El valor no puede ser negativo", 0, 0, "ninguno")
    ELSE LET estado == IF estados_map(opcion_estado) = "None"
                       THEN "disponible" ELSE estados_map(opcion_estado)
             r == agregar_nuevo(est, Implemento(id_impl, cantidad_txt.val, estado))
         IN  IF r.ret
             THEN Res(r.est, "Implemento registrado exitosamente",
                      r.acciones, r.fallos, "ninguno")
             ELSE Res(r.est, "No se pudo registrar el implemento",
                      r.acciones, r.fallos, "ninguno")

proceso_modificacion(est, id_modificar, nuevo_stock_txt, opcion_estado) ==
    IF buscar_por_id(est, id_modificar) = 0
    THEN Res(est, "Implemento no encontrado", 0, 0, "ninguno")
    ELSE LET claves == (IF nuevo_stock_txt.tipo = "int" THEN {"stock"} ELSE {})
                       \cup (IF estados_map(opcion_estado) # "None"
                             THEN {"condicion"} ELSE {})
             r == modificar_existente(est, id_modificar,
                      [claves |-> claves, stock |-> nuevo_stock_txt.val,
                       condicion |-> estados_map(opcion_estado)])
         IN  IF r.ret
             THEN Res(r.est, "Implemento actualizado correctamente",
                      r.acciones, 0, "ninguno")
             ELSE Res(r.est, "Error al actualizar", r.acciones, 0, "ninguno")

proceso_eliminacion(est, id_eliminar, confirmacion) ==
    IF buscar_por_id(est, id_eliminar) = 0
    THEN Res(est, "Implemento no encontrado", 0, 0, "ninguno")
    ELSE IF confirmacion = "s"
    THEN LET r == eliminar_del_sistema(est, id_eliminar)
         IN  IF r.ret
             THEN Res(r.est, "Implemento eliminado del sistema", r.acciones, 0, "ninguno")
             ELSE Res(r.est, "Error al eliminar", r.acciones, 0, "ninguno")
    ELSE Res(est, "Operacion cancelada", 0, 0, "ninguno")

proceso_marcar_danado(est, id_impl) ==
    LET k == buscar_por_id(est, id_impl)
    IN  IF k = 0
        THEN Res(est, "Implemento no encontrado", 0, 0, "ninguno")
        ELSE Res([est EXCEPT !.coleccion[k] = marcar_condicion(@, "danado")],
                 "marcado como danado", 1, 0, "ninguno")

(* ---------------- modulo_miembros ---------------- *)
ROLES_VALIDOS == {"residente", "administrador"}

\* of the fields of a member the model keeps the id and the role
Miembro(identificador, rol) == [identificador |-> identificador, rol |-> rol]

\* rol = 'residente' if tipo_opcion == '1' else 'administrador'
rol_de(tipo_opcion) == IF tipo_opcion = "1" THEN "residente" ELSE "administrador"

localizar(est, identificador) == PrimerIndice(est.registro, identificador)

inscribir(est, miembro) ==
    IF miembro.identificador \in est.codigos_usados
    THEN [ret |-> FALSE, est |-> est, acciones |-> 0, fallos |-> 1]
    ELSE [ret |-> TRUE,
          est |-> [est EXCEPT !.registro = Append(@, miembro),
                              !.codigos_usados = @ \cup {miembro.identificador}],
          acciones |-> 1, fallos |-> 0]

\* faulty variant of dar_de_baja: the code stays in codigos_usados
dar_de_baja_sin_liberar(est, identificador) ==
    LET k == localizar(est, identificador)
    IN  IF k = 0
        THEN [ret |-> FALSE, est |-> est, acciones |-> 0]
        ELSE [ret |-> TRUE,
              est |-> [est EXCEPT !.registro = Quitar(@, k)],
              acciones |-> 1]

dar_de_baja(est, identificador) ==
    LET k == localizar(est, identificador)
    IN  IF k = 0
        THEN [ret |-> FALSE, est |-> est, acciones |-> 0]
        ELSE [ret |-> TRUE,
              est |-> [est EXCEPT !.registro = Quitar(@, k),
                                  !.codigos_usados = @ \ {identificador}],
              acciones |-> 1]

\* nuevos_datos is a dict: claves is its key set
actualizar_info(est, identificador, nuevos_datos) ==
    LET k == localizar(est, identificador)
    IN  IF k = 0
        THEN [ret |-> FALSE, est |-> est, acciones |-> 0]
        ELSE [ret |-> TRUE,
              est |-> IF "rol" \in nuevos_datos.claves /\ nuevos_datos.rol \in ROLES_VALIDOS
                      THEN [est EXCEPT !.registro[k].rol = nuevos_datos.rol]
                      ELSE est,
              acciones |-> 1]

flujo_actualizacion(est, codigo, tipo_opcion) ==
    IF localizar(est, codigo) = 0
    THEN Res(est, "Miembro no encontrado", 0, 0, "ninguno")
    ELSE LET r == actualizar_info(est, codigo,
                      [claves |-> {"nombres", "apellidos", "telefono", "ubicacion", "rol"},
                       rol |-> rol_de(tipo_opcion)])
         IN  IF r.ret
             THEN Res(r.est, "Informacion actualizada", r.acciones, 0, "ninguno")
             ELSE Res(r.est, "Error al actualizar", r.acciones, 0, "ninguno")

flujo_inscripcion(est, codigo, tipo_opcion) ==
    IF codigo \in est.codigos_usados
    THEN Res(est, "Este codigo ya esta registrado", 0, 1, "ninguno")
    ELSE LET r == inscribir(est, Miembro(codigo, rol_de(tipo_opcion)))
         IN  IF r.ret
             THEN Res(r.est, "Miembro inscrito exitosamente", r.acciones, r.fallos, "ninguno")
             ELSE Res(r.est, "No se pudo completar el registro",
                      r.acciones, r.fallos, "ninguno")

flujo_baja(est, codigo, confirmacion) ==
    IF localizar(est, codigo) = 0
    THEN Res(est, "Miembro no encontrado", 0, 0, "ninguno")
    ELSE IF confirmacion = "s"
    THEN LET r == dar_de_baja(est, codigo)
         IN  IF r.ret
             THEN Res(r.est, "Miembro dado de baja", r.acciones, 0, "ninguno")
             ELSE Res(r.est, "Error", r.acciones, 0, "ninguno")
    ELSE Res(est, "Operacion cancelada", 0, 0, "ninguno")

(* ---------------- modulo_asignaciones ---------------- *)
ESTADOS == {"activo", "devuelto", "vencido", "cancelado"}

Asignacion(identificador, codigo_miembro, codigo_implemento, unidades, fecha_salida, fecha_retorno, estado) ==
    [identificador |-> identificador, codigo_miembro |-> codigo_miembro,
     codigo_implemento |-> codigo_implemento, unidades |-> unidades,
     fecha_salida |-> fecha_salida, fecha_retorno |-> fecha_retorno,
     estado |-> estado]

\* faulty variant of esta_vencido: the due day itself counts as overdue
esta_vencido_inclusive(asig, hoy) ==
    IF asig.estado # "activo" THEN FALSE
    ELSE comparar_fechas(hoy, asig.fecha_retorno) >= 0

\* faulty variant of esta_vencido: the status is not looked at
esta_vencido_sin_estado(asig, hoy) ==
    comparar_fechas(hoy, asig.fecha_retorno) > 0

\* hoy is what obtener_fecha_actual returns at the time of the call
esta_vencido(asig, hoy) ==
    IF asig.estado # "activo" THEN FALSE
    ELSE comparar_fechas(hoy, asig.fecha_retorno) > 0

\* esta_vencido raises: the record is active and its stored fecha_retorno
\* does not parse (hoy, made by strftime, always does)
esta_vencido_lanza(asig, hoy) ==
    asig.estado = "activo" /\ comparar_fechas_lanza(hoy, asig.fecha_retorno)

\* One line of asignaciones.txt after strip().split(","): its parts, the
\* fourth being the text int(...) is applied to.
cargar_linea(est, partes) ==
    IF Len(partes) = 7
    THEN IF partes[4].tipo = "int"
         THEN [est EXCEPT !.lista = Append(@, Asignacion(partes[1], partes[2], partes[3], partes[4].val, partes[5], partes[6], partes[7])),
                          !.ids_usados = @ \cup {partes[1]}]
         ELSE est
    ELSE est

RECURSIVE _cargar(_, _)
_cargar(est, lineas) ==
    IF lineas = <<>> THEN est
    ELSE _cargar(cargar_linea(est, Head(lineas)), Tail(lineas))

\* faulty variant of crear: the record is put at the head of the list
crear_al_inicio(est, asignacion) ==
    IF asignacion.identificador \in est.ids_usados
    THEN [ret |-> FALSE, est |-> est, acciones |-> 0]
    ELSE [ret |-> TRUE,
          est |-> [est EXCEPT !.lista = <<asignacion>> \o @,
                              !.ids_usados = @ \cup {asignacion.identificador}],
          acciones |-> 1]

\* faulty variant of crear: ids_usados.add is forgotten
crear_sin_registrar_id(est, asignacion) ==
    IF asignacion.identificador \in est.ids_usados
    THEN [ret |-> FALSE, est |-> est, acciones |-> 0]
    ELSE [ret |-> TRUE, est |-> [est EXCEPT !.lista = Append(@, asignacion)],
          acciones |-> 1]

crear(est, asignacion) ==
    IF asignacion.identificador \in est.ids_usados
    THEN [ret |-> FALSE, est |-> est, acciones |-> 0]
    ELSE [ret |-> TRUE,
          est |-> [est EXCEPT !.lista = Append(@, asignacion),
                              !.ids_usados = @ \cup {asignacion.identificador}],
          acciones |-> 1]

buscar(est, identificador) == PrimerIndice(est.lista, identificador)

a_diccionario(a) ==
    [id |-> a.identificador, codigo_miembro |-> a.codigo_miembro,
     codigo_implemento |-> a.codigo_implemento, unidades |-> a.unidades,
     fecha_salida |-> a.fecha_salida, fecha_retorno |-> a.fecha_retorno,
     estado |-> a.estado]

persistir(est, fallan) ==
    persistir_multiformato([n \in 1..Len(est.lista) |-> a_diccionario(est.lista[n])], fallan)

\* faulty variant of obtener_todas: the list of the engine itself is handed out
obtener_todas_sin_copia(est) == [objeto |-> "lista", elementos |-> est.lista]

\* The list object a caller receives: objeto tells whether it is self.lista
\* or a new list, elementos what it holds.
obtener_todas(est) == [objeto |-> "copia", elementos |-> est.lista]

obtener_activas(est) ==
    LET activa(a) == a.estado = "activo"
    IN  SelectSeq(est.lista, activa)

obtener_por_miembro(est, codigo_miembro) ==
    LET suya(a) == a.codigo_miembro = codigo_miembro
    IN  SelectSeq(est.lista, suya)

\* the comprehension of obtener_vencidas raises at one of its records
obtener_vencidas_lanza(est, hoy) ==
    \E n \in 1..Len(est.lista) : esta_vencido_lanza(est.lista[n], hoy)

obtener_vencidas(est, hoy) ==
    LET vence(a) == esta_vencido(a, hoy)
    IN  SelectSeq(est.lista, vence)

(* ---------------- interfaz_asignaciones.PantallasAsignaciones ---------------- *)
MSG_DUPLICADO == "Este ID ya existe"
MSG_MIEMBRO == "Miembro no encontrado"
MSG_IMPLEMENTO == "Implemento no encontrado"
MSG_CANTIDAD == "Cantidad invalida"
MSG_NO_NUMERO == "Debe ingresar un numero"
MSG_STOCK == "Stock insuficiente"
MSG_FECHA == "Formato de fecha invalido"
MSG_CREADA == "Asignacion registrada correctamente"
MSG_ERROR_CREAR == "Error al crear asignacion"
MSG_NO_DEVOLVER == "Asignacion no encontrada o ya procesada"
MSG_DEVUELTA == "Devolucion procesada correctamente"
MSG_ERROR_DEVOLVER == "Error al procesar devolucion"
MSG_NO_ACTIVA == "Asignacion no encontrada o no esta activa"
MSG_CANCELADA == "Asignacion cancelada"
MSG_ERROR_CANCELAR == "Error al cancelar"
MSG_FECHA_INVALIDA == "Fecha invalida"
MSG_NO_POSTERIOR == "La nueva fecha debe ser posterior a la actual"
MSG_EXTENDIDA == "Fecha de retorno extendida"

Ajuste(a) == IF a.ret THEN "aplicado" ELSE "rechazado"

MSG_GUARDADO == "Cambios guardados"
MSG_NO_GUARDADO == "Algunos archivos no se guardaron"

\* option 6 of the assignments screen (the inventory is saved by the same
\* call of persistir_multiformato; nothing in memory depends on either)
guardar_cambios(est, fallan) ==
    LET resultado == persistir(est, fallan).resultado
    IN  [est |-> est,
         salida |-> IF \A f \in Formatos : resultado[f]
                    THEN MSG_GUARDADO ELSE MSG_NO_GUARDADO,
         resultado |-> resultado]

MSG_SIN_ASIGNACIONES == "No hay asignaciones registradas"
MSG_LISTADO == "ID Miembro Implemento Cant Retorno Estado"
DESCONOCIDO == "Desconocido"

\* the row listar_todas prints for a record; a member and an implement are
\* shown by their id here
Fila(est, a) ==
    [identificador |-> a.identificador,
     nombre_m |-> IF localizar(est, a.codigo_miembro) # 0
                  THEN a.codigo_miembro ELSE DESCONOCIDO,
     nombre_i |-> IF buscar_por_id(est, a.codigo_implemento) # 0
                  THEN a.codigo_implemento ELSE DESCONOCIDO,
     unidades |-> a.unidades, fecha_retorno |-> a.fecha_retorno,
     estado |-> a.estado]

\* faulty variant of listar_todas: nombre_completo() is called on the None
\* that localizar returns for a member who left
listar_todas_sin_comprobar(est) ==
    LET asigs == obtener_todas(est).elementos
    IN  IF asigs = <<>>
        THEN [est |-> est, salida |-> MSG_SIN_ASIGNACIONES, filas |-> <<>>]
        ELSE IF \E n \in 1..Len(asigs) : localizar(est, asigs[n].codigo_miembro) = 0
        THEN [est |-> est, salida |-> "AttributeError", filas |-> <<>>]
        ELSE [est |-> est, salida |-> MSG_LISTADO,
              filas |-> [n \in 1..Len(asigs) |-> Fila(est, asigs[n])]]

listar_todas(est) ==
    LET asigs == obtener_todas(est).elementos
    IN  IF asigs = <<>>
        THEN [est |-> est, salida |-> MSG_SIN_ASIGNACIONES, filas |-> <<>>]
        ELSE [est |-> est, salida |-> MSG_LISTADO,
              filas |-> [n \in 1..Len(asigs) |-> Fila(est, asigs[n])]]

\* faulty variant of proceso_creacion: the quantity is validated before the
\* member and implement lookups
proceso_creacion_cantidad_primero(est, id_asig, codigo_miembro, codigo_impl, unidades_txt, fecha_salida, fecha_retorno) ==
    IF id_asig \in est.ids_usados
    THEN Res(est, MSG_DUPLICADO, 0, 0, "ninguno")
    ELSE IF unidades_txt.tipo # "int"
    THEN Res(est, MSG_NO_NUMERO, 0, 0, "ninguno")
    ELSE IF unidades_txt.val <= 0
    THEN Res(est, MSG_CANTIDAD, 0, 0, "ninguno")
    ELSE IF localizar(est, codigo_miembro) = 0
    THEN Res(est, MSG_MIEMBRO, 0, 1, "ninguno")
    ELSE IF buscar_por_id(est, codigo_impl) = 0
    THEN Res(est, MSG_IMPLEMENTO, 0, 1, "ninguno")
    ELSE IF ~hay_disponibilidad(est.coleccion[buscar_por_id(est, codigo_impl)],
                                unidades_txt.val)
    THEN Res(est, MSG_STOCK, 0, 1, "ninguno")
    ELSE IF ~validar_fecha(fecha_salida) \/ ~validar_fecha(fecha_retorno)
    THEN Res(est, MSG_FECHA, 0, 0, "ninguno")
    ELSE LET k == buscar_por_id(est, codigo_impl)
             asignacion == Asignacion(id_asig, codigo_miembro, codigo_impl,
                               unidades_txt.val, fecha_salida, fecha_retorno, "activo")
             c == crear(est, asignacion)
         IN  IF c.ret
             THEN LET a == ajustar_stock(c.est.coleccion[k], 0 - unidades_txt.val)
                  IN  Res([c.est EXCEPT !.coleccion[k] = a.impl], MSG_CREADA,
                          c.acciones + 1, 0, Ajuste(a))
             ELSE Res(c.est, MSG_ERROR_CREAR, c.acciones, 0, "ninguno")

\* faulty variant of proceso_creacion: a member who is not in the registry
\* is inscribed on the spot instead of the request being refused
proceso_creacion_inscribe(est0, id_asig, codigo_miembro, codigo_impl, unidades_txt, fecha_salida, fecha_retorno) ==
    LET est == IF localizar(est0, codigo_miembro) = 0
               THEN inscribir(est0, Miembro(codigo_miembro, "residente")).est ELSE est0
    IN
    IF id_asig \in est.ids_usados
    THEN Res(est, MSG_DUPLICADO, 0, 0, "ninguno")
    ELSE IF buscar_por_id(est, codigo_impl) = 0
    THEN Res(est, MSG_IMPLEMENTO, 0, 1, "ninguno")
    ELSE IF unidades_txt.tipo # "int"
    THEN Res(est, MSG_NO_NUMERO, 0, 0, "ninguno")
    ELSE IF unidades_txt.val <= 0
    THEN Res(est, MSG_CANTIDAD, 0, 0, "ninguno")
    ELSE IF ~hay_disponibilidad(est.coleccion[buscar_por_id(est, codigo_impl)],
                                unidades_txt.val)
    THEN Res(est, MSG_STOCK, 0, 1, "ninguno")
    ELSE IF ~validar_fecha(fecha_salida) \/ ~validar_fecha(fecha_retorno)
    THEN Res(est, MSG_FECHA, 0, 0, "ninguno")
    ELSE LET k == buscar_por_id(est, codigo_impl)
             asignacion == Asignacion(id_asig, codigo_miembro, codigo_impl,
                               unidades_txt.val, fecha_salida, fecha_retorno, "activo")
             c == crear(est, asignacion)
         IN  IF c.ret
             THEN LET a == ajustar_stock(c.est.coleccion[k], 0 - unidades_txt.val)
                  IN  Res([c.est EXCEPT !.coleccion[k] = a.impl], MSG_CREADA,
                          c.acciones + 1, 0, Ajuste(a))
             ELSE Res(c.est, MSG_ERROR_CREAR, c.acciones, 0, "ninguno")

\* faulty variant of proceso_creacion: the units lent are not taken from
\* the stock
proceso_creacion_sin_descontar(est, id_asig, codigo_miembro, codigo_impl, unidades_txt, fecha_salida, fecha_retorno) ==
    IF id_asig \in est.ids_usados
    THEN Res(est, MSG_DUPLICADO, 0, 0, "ninguno")
    ELSE IF localizar(est, codigo_miembro) = 0
    THEN Res(est, MSG_MIEMBRO, 0, 1, "ninguno")
    ELSE IF buscar_por_id(est, codigo_impl) = 0
    THEN Res(est, MSG_IMPLEMENTO, 0, 1, "ninguno")
    ELSE IF unidades_txt.tipo # "int"
    THEN Res(est, MSG_NO_NUMERO, 0, 0, "ninguno")
    ELSE IF unidades_txt.val <= 0
    THEN Res(est, MSG_CANTIDAD, 0, 0, "ninguno")
    ELSE IF ~hay_disponibilidad(est.coleccion[buscar_por_id(est, codigo_impl)],
                                unidades_txt.val)
    THEN Res(est, MSG_STOCK, 0, 1, "ninguno")
    ELSE IF ~validar_fecha(fecha_salida) \/ ~validar_fecha(fecha_retorno)
    THEN Res(est, MSG_FECHA, 0, 0, "ninguno")
    ELSE LET asignacion == Asignacion(id_asig, codigo_miembro, codigo_impl,
                               unidades_txt.val, fecha_salida, fecha_retorno, "activo")
             c == crear(est, asignacion)
         IN  IF c.ret
             THEN Res(c.est, MSG_CREADA, c.acciones + 1, 0, "ninguno")
             ELSE Res(c.est, MSG_ERROR_CREAR, c.acciones, 0, "ninguno")

proceso_creacion(est, id_asig, codigo_miembro, codigo_impl, unidades_txt, fecha_salida, fecha_retorno) ==
    IF id_asig \in est.ids_usados
    THEN Res(est, MSG_DUPLICADO, 0, 0, "ninguno")
    ELSE IF localizar(est, codigo_miembro) = 0
    THEN Res(est, MSG_MIEMBRO, 0, 1, "ninguno")
    ELSE IF buscar_por_id(est, codigo_impl) = 0
    THEN Res(est, MSG_IMPLEMENTO, 0, 1, "ninguno")
    ELSE IF unidades_txt.tipo # "int"
    THEN Res(est, MSG_NO_NUMERO, 0, 0, "ninguno")
    ELSE IF unidades_txt.val <= 0
    THEN Res(est, MSG_CANTIDAD, 0, 0, "ninguno")
    ELSE IF ~hay_disponibilidad(est.coleccion[buscar_por_id(est, codigo_impl)],
                                unidades_txt.val)
    THEN Res(est, MSG_STOCK, 0, 1, "ninguno")
    ELSE IF ~validar_fecha(fecha_salida) \/ ~validar_fecha(fecha_retorno)
    THEN Res(est, MSG_FECHA, 0, 0, "ninguno")
    ELSE LET k == buscar_por_id(est, codigo_impl)
             asignacion == Asignacion(id_asig, codigo_miembro, codigo_impl,
                               unidades_txt.val, fecha_salida, fecha_retorno, "activo")
             c == crear(est, asignacion)
         IN  IF c.ret
             THEN LET a == ajustar_stock(c.est.coleccion[k], 0 - unidades_txt.val)
                  IN  Res([c.est EXCEPT !.coleccion[k] = a.impl], MSG_CREADA,
                          c.acciones + 1, 0, Ajuste(a))
             ELSE Res(c.est, MSG_ERROR_CREAR, c.acciones, 0, "ninguno")

\* faulty variant of proceso_creacion_hasta_crear: the stock is adjusted
\* before crear is called
proceso_creacion_hasta_crear_descuenta(est, id_asig, codigo_miembro, codigo_impl, unidades_txt, fecha_salida, fecha_retorno) ==
    IF proceso_creacion(est, id_asig, codigo_miembro, codigo_impl, unidades_txt, fecha_salida, fecha_retorno).salida # MSG_CREADA
    THEN LET r == proceso_creacion(est, id_asig, codigo_miembro, codigo_impl, unidades_txt, fecha_salida, fecha_retorno)
         IN  [est |-> r.est, salida |-> r.salida, acciones |-> r.acciones,
              fallos |-> r.fallos, pendiente |-> <<>>]
    ELSE LET k == buscar_por_id(est, codigo_impl)
             asignacion == Asignacion(id_asig, codigo_miembro, codigo_impl,
                               unidades_txt.val, fecha_salida, fecha_retorno, "activo")
             a == ajustar_stock(est.coleccion[k], 0 - unidades_txt.val)
             c == crear([est EXCEPT !.coleccion[k] = a.impl], asignacion)
         IN  [est |-> c.est, salida |-> "", acciones |-> c.acciones, fallos |-> 0,
              pendiente |-> <<asignacion>>]

\* proceso_creacion up to the return of crear: pendiente holds the record
\* when crear returned True, and nothing has been printed for it yet
proceso_creacion_hasta_crear(est, id_asig, codigo_miembro, codigo_impl, unidades_txt, fecha_salida, fecha_retorno) ==
    IF id_asig \in est.ids_usados
    THEN [est |-> est, salida |-> MSG_DUPLICADO, acciones |-> 0, fallos |-> 0, pendiente |-> <<>>]
    ELSE IF localizar(est, codigo_miembro) = 0
    THEN [est |-> est, salida |-> MSG_MIEMBRO, acciones |-> 0, fallos |-> 1, pendiente |-> <<>>]
    ELSE IF buscar_por_id(est, codigo_impl) = 0
    THEN [est |-> est, salida |-> MSG_IMPLEMENTO, acciones |-> 0, fallos |-> 1, pendiente |-> <<>>]
    ELSE IF unidades_txt.tipo # "int"
    THEN [est |-> est, salida |-> MSG_NO_NUMERO, acciones |-> 0, fallos |-> 0, pendiente |-> <<>>]
    ELSE IF unidades_txt.val <= 0
    THEN [est |-> est, salida |-> MSG_CANTIDAD, acciones |-> 0, fallos |-> 0, pendiente |-> <<>>]
    ELSE IF ~hay_disponibilidad(est.coleccion[buscar_por_id(est, codigo_impl)],
                                unidades_txt.val)
    THEN [est |-> est, salida |-> MSG_STOCK, acciones |-> 0, fallos |-> 1, pendiente |-> <<>>]
    ELSE IF ~validar_fecha(fecha_salida) \/ ~validar_fecha(fecha_retorno)
    THEN [est |-> est, salida |-> MSG_FECHA, acciones |-> 0, fallos |-> 0, pendiente |-> <<>>]
    ELSE LET asignacion == Asignacion(id_asig, codigo_miembro, codigo_impl,
                               unidades_txt.val, fecha_salida, fecha_retorno, "activo")
             c == crear(est, asignacion)
         IN  IF c.ret
             THEN [est |-> c.est, salida |-> "", acciones |-> c.acciones, fallos |-> 0,
                   pendiente |-> <<asignacion>>]
             ELSE [est |-> c.est, salida |-> MSG_ERROR_CREAR, acciones |-> c.acciones,
                   fallos |-> 0, pendiente |-> <<>>]

\* the branch of proceso_creacion behind a True of crear; impl is the
\* implement object found before, still the one with that id
proceso_creacion_tras_crear(est, asignacion) ==
    LET k == buscar_por_id(est, asignacion.codigo_implemento)
        a == ajustar_stock(est.coleccion[k], 0 - asignacion.unidades)
    IN  Res([est EXCEPT !.coleccion[k] = a.impl], MSG_CREADA, 1, 0, Ajuste(a))

\* faulty variant of proceso_devolucion: the record is closed although the
\* implement was not found
proceso_devolucion_cierra_sin_impl(est, id_asig) ==
    LET n == buscar(est, id_asig)
    IN  IF n = 0 \/ (n # 0 /\ est.lista[n].estado # "activo")
        THEN Res(est, MSG_NO_DEVOLVER, 0, 0, "ninguno")
        ELSE LET k == buscar_por_id(est, est.lista[n].codigo_implemento)
             IN  IF k # 0
                 THEN LET a == ajustar_stock(est.coleccion[k], est.lista[n].unidades)
                      IN  Res([est EXCEPT !.coleccion[k] = a.impl,
                                          !.lista[n].estado = "devuelto"],
                              MSG_DEVUELTA, 1, 0, Ajuste(a))
                 ELSE Res([est EXCEPT !.lista[n].estado = "devuelto"],
                          MSG_DEVUELTA, 1, 0, "ninguno")

\* faulty variant of proceso_devolucion: the status is not tested
proceso_devolucion_sin_estado(est, id_asig) ==
    LET n == buscar(est, id_asig)
    IN  IF n = 0
        THEN Res(est, MSG_NO_DEVOLVER, 0, 0, "ninguno")
        ELSE LET k == buscar_por_id(est, est.lista[n].codigo_implemento)
             IN  IF k # 0
                 THEN LET a == ajustar_stock(est.coleccion[k], est.lista[n].unidades)
                      IN  Res([est EXCEPT !.coleccion[k] = a.impl,
                                          !.lista[n].estado = "devuelto"],
                              MSG_DEVUELTA, 1, 0, Ajuste(a))
                 ELSE Res(est, MSG_ERROR_DEVOLVER, 0, 0, "ninguno")

\* faulty variant of proceso_devolucion: the stock is not restored
proceso_devolucion_sin_stock(est, id_asig) ==
    LET n == buscar(est, id_asig)
    IN  IF n = 0 \/ (n # 0 /\ est.lista[n].estado # "activo")
        THEN Res(est, MSG_NO_DEVOLVER, 0, 0, "ninguno")
        ELSE LET k == buscar_por_id(est, est.lista[n].codigo_implemento)
             IN  IF k # 0
                 THEN Res([est EXCEPT !.lista[n].estado = "devuelto"],
                          MSG_DEVUELTA, 1, 0, "ninguno")
                 ELSE Res(est, MSG_ERROR_DEVOLVER, 0, 0, "ninguno")

\* faulty variant of proceso_devolucion: an implement that is not in
\* available condition is treated as missing
proceso_devolucion_solo_disponible(est, id_asig) ==
    LET n == buscar(est, id_asig)
    IN  IF n = 0 \/ (n # 0 /\ est.lista[n].estado # "activo")
        THEN Res(est, MSG_NO_DEVOLVER, 0, 0, "ninguno")
        ELSE LET k == buscar_por_id(est, est.lista[n].codigo_implemento)
             IN  IF k # 0 /\ est.coleccion[k].condicion = "disponible"
                 THEN LET a == ajustar_stock(est.coleccion[k], est.lista[n].unidades)
                      IN  Res([est EXCEPT !.coleccion[k] = a.impl,
                                          !.lista[n].estado = "devuelto"],
                              MSG_DEVUELTA, 1, 0, Ajuste(a))
                 ELSE Res(est, MSG_ERROR_DEVOLVER, 0, 0, "ninguno")

proceso_devolucion(est, id_asig) ==
    LET n == buscar(est, id_asig)
    IN  IF n = 0 \/ (n # 0 /\ est.lista[n].estado # "activo")
        THEN Res(est, MSG_NO_DEVOLVER, 0, 0, "ninguno")
        ELSE LET k == buscar_por_id(est, est.lista[n].codigo_implemento)
             IN  IF k # 0
                 THEN LET a == ajustar_stock(est.coleccion[k], est.lista[n].unidades)
                      IN  Res([est EXCEPT !.coleccion[k] = a.impl,
                                          !.lista[n].estado = "devuelto"],
                              MSG_DEVUELTA, 1, 0, Ajuste(a))
                 ELSE Res(est, MSG_ERROR_DEVOLVER, 0, 0, "ninguno")

\* faulty variant of proceso_cancelacion: the status is not tested
proceso_cancelacion_sin_estado(est, id_asig) ==
    LET n == buscar(est, id_asig)
    IN  IF n = 0
        THEN Res(est, MSG_NO_ACTIVA, 0, 0, "ninguno")
        ELSE LET k == buscar_por_id(est, est.lista[n].codigo_implemento)
             IN  IF k # 0
                 THEN LET a == ajustar_stock(est.coleccion[k], est.lista[n].unidades)
                      IN  Res([est EXCEPT !.coleccion[k] = a.impl,
                                          !.lista[n].estado = "cancelado"],
                              MSG_CANCELADA, 1, 0, Ajuste(a))
                 ELSE Res(est, MSG_ERROR_CANCELAR, 0, 0, "ninguno")

\* faulty variant of proceso_cancelacion: a missing implement goes unreported
\* and the record is closed without any restoration
proceso_cancelacion_cierra_sin_impl(est, id_asig) ==
    LET n == buscar(est, id_asig)
    IN  IF n = 0 \/ (n # 0 /\ est.lista[n].estado # "activo")
        THEN Res(est, MSG_NO_ACTIVA, 0, 0, "ninguno")
        ELSE LET k == buscar_por_id(est, est.lista[n].codigo_implemento)
             IN  IF k # 0
                 THEN LET a == ajustar_stock(est.coleccion[k], est.lista[n].unidades)
                      IN  Res([est EXCEPT !.coleccion[k] = a.impl,
                                          !.lista[n].estado = "cancelado"],
                              MSG_CANCELADA, 1, 0, Ajuste(a))
                 ELSE Res([est EXCEPT !.lista[n].estado = "cancelado"],
                          MSG_CANCELADA, 1, 0, "ninguno")

\* faulty variant of proceso_cancelacion: the stock is not restored
proceso_cancelacion_sin_stock(est, id_asig) ==
    LET n == buscar(est, id_asig)
    IN  IF n = 0 \/ (n # 0 /\ est.lista[n].estado # "activo")
        THEN Res(est, MSG_NO_ACTIVA, 0, 0, "ninguno")
        ELSE LET k == buscar_por_id(est, est.lista[n].codigo_implemento)
             IN  IF k # 0
                 THEN Res([est EXCEPT !.lista[n].estado = "cancelado"],
                          MSG_CANCELADA, 1, 0, "ninguno")
                 ELSE Res(est, MSG_ERROR_CANCELAR, 0, 0, "ninguno")

proceso_cancelacion(est, id_asig) ==
    LET n == buscar(est, id_asig)
    IN  IF n = 0 \/ (n # 0 /\ est.lista[n].estado # "activo")
        THEN Res(est, MSG_NO_ACTIVA, 0, 0, "ninguno")
        ELSE LET k == buscar_por_id(est, est.lista[n].codigo_implemento)
             IN  IF k # 0
                 THEN LET a == ajustar_stock(est.coleccion[k], est.lista[n].unidades)
                      IN  Res([est EXCEPT !.coleccion[k] = a.impl,
                                          !.lista[n].estado = "cancelado"],
                              MSG_CANCELADA, 1, 0, Ajuste(a))
                 ELSE Res(est, MSG_ERROR_CANCELAR, 0, 0, "ninguno")

\* faulty variant of proceso_extension: an equal date is accepted
proceso_extension_acepta_igual(est, id_asig, nueva_fecha) ==
    LET n == buscar(est, id_asig)
    IN  IF n = 0 \/ (n # 0 /\ est.lista[n].estado # "activo")
        THEN Res(est, MSG_NO_ACTIVA, 0, 0, "ninguno")
        ELSE IF ~validar_fecha(nueva_fecha)
        THEN Res(est, MSG_FECHA_INVALIDA, 0, 0, "ninguno")
        ELSE IF comparar_fechas_lanza(nueva_fecha, est.lista[n].fecha_retorno)
        THEN Res(est, EXC_VALUE_ERROR, 0, 0, "ninguno")
        ELSE IF comparar_fechas(nueva_fecha, est.lista[n].fecha_retorno) < 0
        THEN Res(est, MSG_NO_POSTERIOR, 0, 0, "ninguno")
        ELSE Res([est EXCEPT !.lista[n].fecha_retorno = nueva_fecha],
                 MSG_EXTENDIDA, 1, 0, "ninguno")

\* faulty variant of proceso_extension: the date is stored before it is
\* compared with the current one
proceso_extension_escribe_antes(est, id_asig, nueva_fecha) ==
    LET n == buscar(est, id_asig)
    IN  IF n = 0 \/ (n # 0 /\ est.lista[n].estado # "activo")
        THEN Res(est, MSG_NO_ACTIVA, 0, 0, "ninguno")
        ELSE IF ~validar_fecha(nueva_fecha)
        THEN Res(est, MSG_FECHA_INVALIDA, 0, 0, "ninguno")
        ELSE IF comparar_fechas_lanza(nueva_fecha, est.lista[n].fecha_retorno)
        THEN Res(est, EXC_VALUE_ERROR, 0, 0, "ninguno")
        ELSE IF comparar_fechas(nueva_fecha, est.lista[n].fecha_retorno) <= 0
        THEN Res([est EXCEPT !.lista[n].fecha_retorno = nueva_fecha],
                 MSG_NO_POSTERIOR, 0, 0, "ninguno")
        ELSE Res([est EXCEPT !.lista[n].fecha_retorno = nueva_fecha],
                 MSG_EXTENDIDA, 1, 0, "ninguno")

\* faulty variant of proceso_extension: the new date is not compared with
\* the current one
proceso_extension_sin_comparar(est, id_asig, nueva_fecha) ==
    LET n == buscar(est, id_asig)
    IN  IF n = 0 \/ (n # 0 /\ est.lista[n].estado # "activo")
        THEN Res(est, MSG_NO_ACTIVA, 0, 0, "ninguno")
        ELSE IF ~validar_fecha(nueva_fecha)
        THEN Res(est, MSG_FECHA_INVALIDA, 0, 0, "ninguno")
        ELSE Res([est EXCEPT !.lista[n].fecha_retorno = nueva_fecha],
                 MSG_EXTENDIDA, 1, 0, "ninguno")

proceso_extension(est, id_asig, nueva_fecha) ==
    LET n == buscar(est, id_asig)
    IN  IF n = 0 \/ (n # 0 /\ est.lista[n].estado # "activo")
        THEN Res(est, MSG_NO_ACTIVA, 0, 0, "ninguno")
        ELSE IF ~validar_fecha(nueva_fecha)
        THEN Res(est, MSG_FECHA_INVALIDA, 0, 0, "ninguno")
        ELSE IF comparar_fechas_lanza(nueva_fecha, est.lista[n].fecha_retorno)
        THEN Res(est, EXC_VALUE_ERROR, 0, 0, "ninguno")
        ELSE IF comparar_fechas(nueva_fecha, est.lista[n].fecha_retorno) <= 0
        THEN Res(est, MSG_NO_POSTERIOR, 0, 0, "ninguno")
        ELSE Res([est EXCEPT !.lista[n].fecha_retorno = nueva_fecha],
                 MSG_EXTENDIDA, 1, 0, "ninguno")

(* ---------------- MODULO_TEST.SistemaPrincipal ---------------- *)
MSG_SIN_VENCIDAS == "No hay asignaciones vencidas"
MSG_VENCIDAS == "ASIGNACIONES VENCIDAS"

\* faulty variant of mostrar_vencidas: the listing stamps the records it
\* shows with the status vencido
mostrar_vencidas_marcando(est, hoy) ==
    IF obtener_vencidas_lanza(est, hoy)
    THEN Res(est, EXC_VALUE_ERROR, 0, 0, "ninguno")
    ELSE IF obtener_vencidas(est, hoy) = <<>>
    THEN Res(est, MSG_SIN_VENCIDAS, 0, 0, "ninguno")
    ELSE Res([est EXCEPT !.lista =
                  [n \in 1..Len(est.lista) |->
                      IF esta_vencido(est.lista[n], hoy)
                      THEN [est.lista[n] EXCEPT !.estado = "vencido"]
                      ELSE est.lista[n]]],
             MSG_VENCIDAS, 0, 0, "ninguno")

mostrar_vencidas(est, hoy) ==
    IF obtener_vencidas_lanza(est, hoy)
    THEN Res(est, EXC_VALUE_ERROR, 0, 0, "ninguno")
    ELSE IF obtener_vencidas(est, hoy) = <<>>
    THEN Res(est, MSG_SIN_VENCIDAS, 0, 0, "ninguno")
    ELSE Res(est, MSG_VENCIDAS, 0, 0, "ninguno")

(* ---------------- modulo_reportes ---------------- *)
\* ranking[:10]
TOP_RANKING == 10

\* the dict contador after the loop over the assignments: one entry per
\* key, in the order in which the keys were first met
RECURSIVE contar(_, _)
contar(claves, contador) ==
    IF claves = <<>> THEN contador
    ELSE LET c == Head(claves)
             donde == {i \in 1..Len(contador) : contador[i].clave = c}
         IN  IF donde = {}
             THEN contar(Tail(claves), Append(contador, [clave |-> c, cuenta |-> 1]))
             ELSE contar(Tail(claves),
                         [i \in 1..Len(contador) |->
                             IF i \in donde
                             THEN [contador[i] EXCEPT !.cuenta = @ + 1]
                             ELSE contador[i]])

\* x put behind every entry whose count is at least its own
insertar(orden, x) ==
    LET k == Cardinality({i \in 1..Len(orden) : orden[i].cuenta >= x.cuenta})
    IN  SubSeq(orden, 1, k) \o <<x>> \o SubSeq(orden, k + 1, Len(orden))

\* faulty variant of sorted_descendente: an ascending sort turned around,
\* which turns the order of equal counts around too
sorted_descendente_invertido(items) ==
    LET insertar_ascendente(orden, x) ==
            LET k == Cardinality({i \in 1..Len(orden) : orden[i].cuenta <= x.cuenta})
            IN  SubSeq(orden, 1, k) \o <<x>> \o SubSeq(orden, k + 1, Len(orden))
        RECURSIVE sorted_ascendente(_)
        sorted_ascendente(resto) ==
            IF resto = <<>> THEN <<>>
            ELSE insertar_ascendente(sorted_ascendente(SubSeq(resto, 1, Len(resto) - 1)),
                                     resto[Len(resto)])
        asc == sorted_ascendente(items)
    IN  [i \in 1..Len(asc) |-> asc[Len(asc) + 1 - i]]

\* sorted(contador.items(), key=lambda x: x[1], reverse=True): Python's sort
\* is stable, and reverse=True keeps equal keys in their original order
RECURSIVE sorted_descendente(_)
sorted_descendente(items) ==
    IF items = <<>> THEN <<>>
    ELSE insertar(sorted_descendente(SubSeq(items, 1, Len(items) - 1)),
                  items[Len(items)])

primeros(ranking) ==
    SubSeq(ranking, 1, IF Len(ranking) < TOP_RANKING THEN Len(ranking) ELSE TOP_RANKING)

implementos_populares(est) ==
    LET todas == obtener_todas(est).elementos
        claves == [n \in 1..Len(todas) |-> todas[n].codigo_implemento]
    IN  primeros(sorted_descendente(contar(claves, <<>>)))

miembros_activos(est) ==
    LET todas == obtener_todas(est).elementos
        claves == [n \in 1..Len(todas) |-> todas[n].codigo_miembro]
    IN  primeros(sorted_descendente(contar(claves, <<>>)))

MSG_SIN_DATOS == "No hay datos"
MSG_POPULARES == "IMPLEMENTOS MAS SOLICITADOS"
MSG_MAS_ACTIVOS == "MIEMBROS MAS ACTIVOS"

\* InterfazReportes, options 5 and 6; a name is shown by its id here
mostrar_implementos_populares(est) ==
    LET ranking == implementos_populares(est)
    IN  IF ranking = <<>>
        THEN [est |-> est, salida |-> MSG_SIN_DATOS, filas |-> <<>>]
        ELSE [est |-> est, salida |-> MSG_POPULARES,
              filas |-> [i \in 1..Len(ranking) |->
                  [puesto |-> i,
                   nombre |-> IF buscar_por_id(est, ranking[i].clave) # 0
                              THEN ranking[i].clave ELSE DESCONOCIDO,
                   cantidad |-> ranking[i].cuenta]]]

mostrar_miembros_activos(est) ==
    LET ranking == miembros_activos(est)
    IN  IF ranking = <<>>
        THEN [est |-> est, salida |-> MSG_SIN_DATOS, filas |-> <<>>]
        ELSE [est |-> est, salida |-> MSG_MAS_ACTIVOS,
              filas |-> [i \in 1..Len(ranking) |->
                  [puesto |-> i,
                   nombre |-> IF localizar(est, ranking[i].clave) # 0
                              THEN ranking[i].clave ELSE DESCONOCIDO,
                   cantidad |-> ranking[i].cuenta]]]

(* ---------------- modulo_nuevo ---------------- *)
DESCONOCIDA == "Desconocida"
MSG_SIN_PRESTAMOS_VENCIDOS == "No existen prestamos vencidos."
MSG_REPORTE_GENERADO == "Archivo prestamos_vencidos.md generado correctamente."

RECURSIVE DiasAntesDelMes(_, _)
DiasAntesDelMes(y, m) ==
    IF m = 1 THEN 0 ELSE DiasDelMes(y, m - 1) + DiasAntesDelMes(y, m - 1)

\* the day number of a datetime.date, on which < and - of two dates work
toordinal(f) ==
    365 * (f[1] - 1) + ((f[1] - 1) \div 4) - ((f[1] - 1) \div 100) + ((f[1] - 1) \div 400) + DiasAntesDelMes(f[1], f[2]) + f[3]

\* the records of miembros.json and inventario.json that the report reads;
\* a name is shown by its id here
miembro_a_diccionario(m) == [id |-> m.identificador, nombres |-> m.identificador]

implemento_a_diccionario(i) == [id |-> i.identificador, titulo |-> i.identificador]

obtener_nombre_usuario(id_usuario, usuarios) ==
    IF \E j \in 1..Len(usuarios) : usuarios[j].id = id_usuario
    THEN usuarios[CHOOSE j \in 1..Len(usuarios) :
             usuarios[j].id = id_usuario /\ \A i \in 1..(j - 1) : usuarios[i].id # id_usuario].nombres
    ELSE DESCONOCIDO

obtener_nombre_herramienta(id_herramienta, herramientas) ==
    IF \E j \in 1..Len(herramientas) : herramientas[j].id = id_herramienta
    THEN herramientas[CHOOSE j \in 1..Len(herramientas) :
             herramientas[j].id = id_herramienta /\ \A i \in 1..(j - 1) : herramientas[i].id # id_herramienta].titulo
    ELSE DESCONOCIDA

\* faulty variant of prestamo_vencido: the due day itself counts as late
prestamo_vencido_inclusive(p, hoy) ==
    /\ p.estado = "activo"
    /\ toordinal(p.fecha_retorno) <= toordinal(hoy)

\* the two tests of the loop of generar_reporte
prestamo_vencido(p, hoy) ==
    /\ p.estado = "activo"
    /\ toordinal(p.fecha_retorno) < toordinal(hoy)

\* strptime raises on the due date of an active record
generar_reporte_lanza(prestamos) ==
    \E n \in 1..Len(prestamos) :
        prestamos[n].estado = "activo" /\ ~validar_fecha(prestamos[n].fecha_retorno)

RECURSIVE total_herramientas(_)
total_herramientas(vencidos) ==
    IF vencidos = <<>> THEN 0
    ELSE Head(vencidos).cantidad + total_herramientas(Tail(vencidos))

\* prestamos, usuarios, herramientas: what the three json files hold
generar_reporte(prestamos, usuarios, herramientas, hoy) ==
    IF generar_reporte_lanza(prestamos)
    THEN [salida |-> EXC_VALUE_ERROR, vencidos |-> <<>>, total |-> 0, archivo |-> FALSE]
    ELSE LET tarde(p) == prestamo_vencido(p, hoy)
             atrasados == SelectSeq(prestamos, tarde)
             vencidos == [j \in 1..Len(atrasados) |->
                 [id |-> atrasados[j].id,
                  usuario |-> obtener_nombre_usuario(atrasados[j].codigo_miembro, usuarios),
                  herramienta |-> obtener_nombre_herramienta(atrasados[j].codigo_implemento, herramientas),
                  cantidad |-> atrasados[j].unidades,
                  fecha_inicio |-> atrasados[j].fecha_salida,
                  fecha_estimada |-> atrasados[j].fecha_retorno,
                  dias_atraso |-> toordinal(hoy) - toordinal(atrasados[j].fecha_retorno)]]
         IN  IF vencidos = <<>>
             THEN [salida |-> MSG_SIN_PRESTAMOS_VENCIDOS, vencidos |-> vencidos,
                   total |-> 0, archivo |-> FALSE]
             ELSE [salida |-> MSG_REPORTE_GENERADO, vencidos |-> vencidos,
                   total |-> total_herramientas(vencidos), archivo |-> TRUE]

\* the report run on the json files as option 6 writes them from est
reporte_de(est, hoy) ==
    generar_reporte(persistir(est, {}).archivos["json"].datos,
                    [j \in 1..Len(est.registro) |-> miembro_a_diccionario(est.registro[j])],
                    [k \in 1..Len(est.coleccion) |-> implemento_a_diccionario(est.coleccion[k])],
                    hoy)

(* ---------------- the state machine ---------------- *)
\* Fresh installation: the three stores exist and are empty.
Init ==
    /\ coleccion = <<>>
    /\ ids_en_uso = {}
    /\ registro = <<>>
    /\ codigos_usados = {}
    /\ lista = <<>>
    /\ ids_usados = {}
    /\ caido = FALSE
    /\ pendiente = <<>>

\* No menu loop has a handler: an exception raised by a handler ends the
\* program, and nothing runs after that.
Aplicar(r) ==
    /\ ~caido
    /\ pendiente = <<>>
    /\ caido' = (r.salida = EXC_VALUE_ERROR)
    /\ pendiente' = <<>>
    /\ coleccion' = r.est.coleccion
    /\ ids_en_uso' = r.est.ids_en_uso
    /\ registro' = r.est.registro
    /\ codigos_usados' = r.est.codigos_usados
    /\ lista' = r.est.lista
    /\ ids_usados' = r.est.ids_usados

RegistrarImplemento ==
    \E id \in ImplIds, c \in TextosStockAlta, o \in OpcionesEstado, v \in TextosValor :
        /\ Aplicar(impl_proceso_creacion(Actual, id, c, o, v))

ModificarImplemento ==
    \E id \in ImplIds, s \in TextosStockEdicion, o \in OpcionesEstado :
        /\ Aplicar(proceso_modificacion(Actual, id, s, o))

EliminarImplemento ==
    \E id \in ImplIds, conf \in {"s", "n"} :
        /\ Aplicar(proceso_eliminacion(Actual, id, conf))

MarcarDanado ==
    \E id \in ImplIds :
        /\ Aplicar(proceso_marcar_danado(Actual, id))

InscribirMiembro ==
    \E m \in MiembroIds, t \in TiposAlta :
        /\ Aplicar(flujo_inscripcion(Actual, m, t))

BajaMiembro ==
    \E m \in MiembroIds, conf \in {"s", "n"} :
        /\ Aplicar(flujo_baja(Actual, m, conf))

Crear ==
    \E id \in AsigIds, m \in MiembroIds, i \in ImplIds, u \in TextosCantidad,
       fs \in FechasSalida, fr \in FechasRetorno :
        /\ Aplicar(proceso_creacion(Actual, id, m, i, u, fs, fr))

Devolver ==
    \E id \in AsigIds :
        /\ Aplicar(proceso_devolucion(Actual, id))

Cancelar ==
    \E id \in AsigIds :
        /\ Aplicar(proceso_cancelacion(Actual, id))

Extender ==
    \E id \in AsigIds, f \in FechasExtension :
        /\ Aplicar(proceso_extension(Actual, id, f))

VerVencidas ==
    \E hoy \in FechasHoy :
        /\ Aplicar(mostrar_vencidas(Actual, hoy))

ListarTodas ==
    /\ Aplicar(listar_todas(Actual))

GuardarCambios ==
    \E fallan \in SUBSET Formatos :
        /\ Aplicar(guardar_cambios(Actual, fallan))

Next ==
    \/ RegistrarImplemento
    \/ ModificarImplemento
    \/ EliminarImplemento
    \/ MarcarDanado
    \/ InscribirMiembro
    \/ BajaMiembro
    \/ Crear
    \/ Devolver
    \/ Cancelar
    \/ Extender
    \/ VerVencidas
    \/ ListarTodas
    \/ GuardarCambios

Spec == Init /\ [][Next]_vars

(* ---------------- one Implemento under its own methods ---------------- *)
\* largest delta passed to ajustar_stock
MaxDelta == 4
\* ajustar_stock is not called once it would take the stock above this
TopeStock == 30

InitAjuste ==
    /\ coleccion \in {<<Implemento("T1", s, c)>> : s \in 0..MaxStock, c \in ESTADOS_VALIDOS}
    /\ ids_en_uso = {"T1"}
    /\ registro = <<>>
    /\ codigos_usados = {}
    /\ lista = <<>>
    /\ ids_usados = {}
    /\ caido = FALSE
    /\ pendiente = <<>>

AjustarStock ==
    \E d \in (0 - MaxDelta)..MaxDelta :
        /\ coleccion[1].stock + d <= TopeStock
        /\ coleccion' = [coleccion EXCEPT ![1] = ajustar_stock(@, d).impl]
        /\ UNCHANGED <<ids_en_uso, registro, codigos_usados, lista, ids_usados, caido, pendiente>>

MarcarCondicion ==
    \E c \in ESTADOS_VALIDOS \cup {"roto"} :
        /\ coleccion' = [coleccion EXCEPT ![1] = marcar_condicion(@, c)]
        /\ UNCHANGED <<ids_en_uso, registro, codigos_usados, lista, ids_usados, caido, pendiente>>

NextAjuste == AjustarStock \/ MarcarCondicion

SpecAjuste == InitAjuste /\ [][NextAjuste]_vars

(* ---------------- start from a stored asignaciones.txt ---------------- *)
\* most lines the stored file has
MaxLineas == 2

\* lines of the stored file: records of A1 and A2, a line whose quantity is
\* not a number, a line with six fields, a line with a negative quantity
\* and a line whose date of return is not a calendar date
LineasAlmacen ==
    {<<"A1", "M1", "T1", Texto("int", 1), FechaTxt(2025, 1, 10), FechaTxt(2025, 1, 10), "activo">>,
     <<"A1", "M1", "T1", Texto("int", 2), FechaTxt(2025, 1, 10), FechaTxt(2025, 1, 15), "devuelto">>,
     <<"A2", "M1", "T1", Texto("int", 1), FechaTxt(2025, 1, 10), FechaTxt(2025, 1, 10), "activo">>,
     <<"A2", "M1", "T1", Texto("txt", 0), FechaTxt(2025, 1, 10), FechaTxt(2025, 1, 10), "activo">>,
     <<"A2", "M1", "T1", Texto("int", 1), FechaTxt(2025, 1, 10), FechaTxt(2025, 1, 10)>>,
     <<"A2", "M1", "T1", Texto("int", 0 - 1), FechaTxt(2025, 1, 10), FechaTxt(2025, 1, 10), "activo">>,
     <<"A1", "M1", "T1", Texto("int", 1), FechaTxt(2025, 1, 10), FechaTxt(2025, 2, 30), "activo">>}

Archivos == UNION {[1..n -> LineasAlmacen] : n \in 0..MaxLineas}

Vacio ==
    [coleccion |-> <<>>, ids_en_uso |-> {}, registro |-> <<>>,
     codigos_usados |-> {}, lista |-> <<>>, ids_usados |-> {}]

\* SistemaPrincipal.__init__ with one member, one implement and a stored
\* file of assignments
InitCarga ==
    \E s \in 0..MaxStock, archivo \in Archivos :
        /\ coleccion = <<Implemento("T1", s, "disponible")>>
        /\ ids_en_uso = {"T1"}
        /\ registro = <<Miembro("M1", "residente")>>
        /\ codigos_usados = {"M1"}
        /\ lista = _cargar(Vacio, archivo).lista
        /\ ids_usados = _cargar(Vacio, archivo).ids_usados
        /\ caido = FALSE
        /\ pendiente = <<>>

NextCarga ==
    \/ Crear
    \/ Devolver
    \/ Cancelar
    \/ Extender
    \/ VerVencidas
    \/ ListarTodas
    \/ GuardarCambios

SpecCarga == InitCarga /\ [][NextCarga]_vars

(* ---------------- the reports over a filled collection ---------------- *)
MaxRegistros == 12
MaxClaves == 12
MaxPaso == 3

\* the k-th assignment of the collection: implement number (k * paso) mod
\* claves, member number (k * k) mod claves, the three states in turn
Registro(k, paso, claves) ==
    Asignacion("A" \o ToString(k),
               "M" \o ToString(((k * k) % claves) + 1),
               "T" \o ToString(((k * paso) % claves) + 1),
               1, FechaTxt(2025, 1, 10), FechaTxt(2025, 1, 10),
               IF k % 3 = 1 THEN "activo"
               ELSE IF k % 3 = 2 THEN "devuelto" ELSE "cancelado")

\* the implements and members exist, and the collection holds n assignments
InitInforme ==
    \E n \in 0..MaxRegistros, paso \in 1..MaxPaso, claves \in 1..MaxClaves :
        /\ coleccion = [i \in 1..claves |-> Implemento("T" \o ToString(i), 0, "disponible")]
        /\ ids_en_uso = {"T" \o ToString(i) : i \in 1..claves}
        /\ registro = [i \in 1..claves |-> Miembro("M" \o ToString(i), "residente")]
        /\ codigos_usados = {"M" \o ToString(i) : i \in 1..claves}
        /\ lista = [k \in 1..n |-> Registro(k, paso, claves)]
        /\ ids_usados = {"A" \o ToString(k) : k \in 1..n}
        /\ caido = FALSE
        /\ pendiente = <<>>

VerImplementosPopulares ==
    /\ Aplicar(mostrar_implementos_populares(Actual))

VerMiembrosActivos ==
    /\ Aplicar(mostrar_miembros_activos(Actual))

NextInforme ==
    \/ VerImplementosPopulares
    \/ VerMiembrosActivos

SpecInforme == InitInforme /\ [][NextInforme]_vars

(* ---------------- lending from an inventory left as it is ---------------- *)
\* one implement with its initial stock, one member, no assignment yet
InitPrestamos ==
    \E s \in 0..MaxStock :
        /\ coleccion = <<Implemento("T1", s, "disponible")>>
        /\ ids_en_uso = {"T1"}
        /\ registro = <<Miembro("M1", "residente")>>
        /\ codigos_usados = {"M1"}
        /\ lista = <<>>
        /\ ids_usados = {}
        /\ caido = FALSE
        /\ pendiente = <<>>

\* options 2 to 5 of the assignments screen
NextPrestamos ==
    \/ Crear
    \/ Devolver
    \/ Cancelar
    \/ Extender

SpecPrestamos == InitPrestamos /\ [][NextPrestamos]_vars

(* ---------------- the standalone report beside the program ---------------- *)
\* python modulo_nuevo.py, run on the files of a program that has just saved
GenerarReporte ==
    \E hoy \in FechasHoy :
        /\ ~caido
        /\ reporte_de(Actual, hoy).salida \in {MSG_SIN_PRESTAMOS_VENCIDOS, MSG_REPORTE_GENERADO, EXC_VALUE_ERROR}
        /\ UNCHANGED vars

NextReporte ==
    \/ Crear
    \/ Devolver
    \/ Cancelar
    \/ Extender
    \/ GuardarCambios
    \/ GenerarReporte

SpecReporte == InitPrestamos /\ [][NextReporte]_vars

(* ---------------- the inventory and the registry with two ids each ---------------- *)
IdsInventario == {"T1", "T2"}
IdsRegistro == {"M1", "M2"}
TiposMiembro == {"1", "2", ""}

AltaImplemento ==
    \E id \in IdsInventario, c \in TextosStockAlta, o \in OpcionesEstado, v \in TextosValor :
        /\ Aplicar(impl_proceso_creacion(Actual, id, c, o, v))

EdicionImplemento ==
    \E id \in IdsInventario, t \in TextosStockEdicion, o \in OpcionesEstado :
        /\ Aplicar(proceso_modificacion(Actual, id, t, o))

BajaImplemento ==
    \E id \in IdsInventario, conf \in {"s", "n"} :
        /\ Aplicar(proceso_eliminacion(Actual, id, conf))

AltaMiembro ==
    \E m \in IdsRegistro, t \in TiposMiembro :
        /\ Aplicar(flujo_inscripcion(Actual, m, t))

EdicionMiembro ==
    \E m \in IdsRegistro, t \in TiposMiembro :
        /\ Aplicar(flujo_actualizacion(Actual, m, t))

RetiroMiembro ==
    \E m \in IdsRegistro, conf \in {"s", "n"} :
        /\ Aplicar(flujo_baja(Actual, m, conf))

NextRegistros ==
    \/ AltaImplemento
    \/ EdicionImplemento
    \/ BajaImplemento
    \/ AltaMiembro
    \/ EdicionMiembro
    \/ RetiroMiembro

SpecRegistros == Init /\ [][NextRegistros]_vars

(* ---------------- Create in its two steps ---------------- *)
CrearHastaCrear ==
    \E id \in AsigIds, m \in MiembroIds, i \in ImplIds, u \in TextosCantidad, fs \in FechasSalida, fr \in FechasRetorno :
        /\ ~caido
        /\ pendiente = <<>>
        /\ pendiente' = proceso_creacion_hasta_crear(Actual, id, m, i, u, fs, fr).pendiente
        /\ coleccion' = proceso_creacion_hasta_crear(Actual, id, m, i, u, fs, fr).est.coleccion
        /\ lista' = proceso_creacion_hasta_crear(Actual, id, m, i, u, fs, fr).est.lista
        /\ ids_usados' = proceso_creacion_hasta_crear(Actual, id, m, i, u, fs, fr).est.ids_usados
        /\ UNCHANGED <<ids_en_uso, registro, codigos_usados, caido>>

CrearAjustaStock ==
    /\ ~caido
    /\ pendiente # <<>>
    /\ pendiente' = <<>>
    /\ coleccion' = proceso_creacion_tras_crear(Actual, pendiente[1]).est.coleccion
    /\ lista' = proceso_creacion_tras_crear(Actual, pendiente[1]).est.lista
    /\ UNCHANGED <<ids_en_uso, registro, codigos_usados, ids_usados, caido>>

NextPasos ==
    \/ CrearHastaCrear
    \/ CrearAjustaStock
    \/ Devolver
    \/ Cancelar
    \/ Extender

SpecPasos == InitPrestamos /\ [][NextPasos]_vars

(* ======================= properties ======================= *)
\* every way of typing the prompts of proceso_creacion
EntradasCreacion ==
    AsigIds \X MiembroIds \X ImplIds \X TextosCantidad \X FechasSalida \X FechasRetorno

ResCreacion(est, e) == proceso_creacion(est, e[1], e[2], e[3], e[4], e[5], e[6])

Deltas == (0 - MaxDelta)..MaxDelta

\* C1: in every reachable state every implement of the inventory has
\* stock >= 0.
C1_StockNoNegativo ==
    \A k \in 1..Len(coleccion) : coleccion[k].stock >= 0

\* C2: ajustar_stock computes stock + delta, rejects (returns False, no
\* mutation) when that is negative and commits and returns True otherwise;
\* so from stock >= 0 no sequence of deltas leaves the stock negative.
C2_AjusteNuncaNegativo ==
    \A k \in 1..Len(coleccion) :
        /\ coleccion[k].stock >= 0
        /\ \A d \in Deltas :
            LET impl == coleccion[k]
                a == ajustar_stock(impl, d)
            IN  IF impl.stock + d < 0
                THEN a.ret = FALSE /\ a.impl = impl
                ELSE /\ a.ret = TRUE
                     /\ a.impl.stock = impl.stock + d
                     /\ a.impl.condicion = impl.condicion
                     /\ a.impl.identificador = impl.identificador

\* a stock that only accepted increments can have produced, from which a
\* decrement is rejected and an increment accepted
C2_Witness ==
    /\ Len(coleccion) = 1
    /\ coleccion[1].stock = MaxStock + 1
    /\ \E d \in Deltas : ~ajustar_stock(coleccion[1], d).ret
    /\ \E d \in Deltas : d < 0 /\ ajustar_stock(coleccion[1], d).ret

\* the records created, and the records closed, by a step
Altas == {n \in 1..Len(lista') : n > Len(lista)}
Cierres ==
    {n \in 1..Len(lista) :
        /\ n <= Len(lista')
        /\ lista[n].estado = "activo"
        /\ lista'[n].estado \in {"devuelto", "cancelado"}}

\* C3: every loan-driven stock adjustment corresponds to exactly one
\* assignment transition and vice versa: a creation decrements the stock by
\* the quantity, a transition active -> returned / cancelled increments it
\* by the quantity, the increment taking effect, and an assignment
\* operation without a transition changes no stock.
C3_UnAjustePorTransicion ==
    [][(Crear \/ Devolver \/ Cancelar \/ Extender) =>
        /\ Cardinality(Altas \cup Cierres) <= 1
        /\ \A n \in Altas :
            LET k == PrimerIndice(coleccion, lista'[n].codigo_implemento)
            IN  /\ k # 0
                /\ coleccion' = [coleccion EXCEPT ![k].stock = @ - lista'[n].unidades]
        /\ \A n \in Cierres :
            LET k == PrimerIndice(coleccion, lista[n].codigo_implemento)
            IN  /\ k # 0
                /\ coleccion' = [coleccion EXCEPT ![k].stock = @ + lista[n].unidades]
        /\ (Altas \cup Cierres = {}) => coleccion' = coleccion
      ]_vars

\* the typed texts are a valid request on an implement that has the stock
\* and is in available condition
PeticionValida(est, e) ==
    /\ e[1] \notin est.ids_usados
    /\ \E j \in 1..Len(est.registro) : est.registro[j].identificador = e[2]
    /\ e[4].tipo = "int" /\ e[4].val > 0
    /\ \E k \in 1..Len(est.coleccion) :
        /\ est.coleccion[k].identificador = e[3]
        /\ est.coleccion[k].condicion = "disponible"
        /\ e[4].val <= est.coleccion[k].stock
    /\ validar_fecha(e[5]) /\ validar_fecha(e[6])

\* C4: Create followed by Return of the same assignment is a stock round
\* trip: for an implement in available condition and 0 < q <= stock the
\* Create succeeds, the Return succeeds, and the inventory after the Return
\* equals the inventory before the Create.
C4_IdaYVuelta ==
    \A e \in EntradasCreacion :
        PeticionValida(Actual, e) =>
            LET c == ResCreacion(Actual, e)
                d == proceso_devolucion(c.est, e[1])
            IN  /\ c.salida = MSG_CREADA
                /\ c.est.coleccion # coleccion
                /\ d.salida = MSG_DEVUELTA
                /\ d.est.coleccion = coleccion

\* a returned assignment of quantity MaxQty next to its implement, whose
\* stock is back at what was available for it
C4_Witness ==
    \E n \in 1..Len(lista), k \in 1..Len(coleccion) :
        /\ lista[n].estado = "devuelto"
        /\ lista[n].unidades = MaxQty
        /\ coleccion[k].identificador = lista[n].codigo_implemento
        /\ coleccion[k].stock = MaxQty
        /\ \E e \in EntradasCreacion : PeticionValida(Actual, e)

\* the two lists agree except that where a has estado_a, b has estado_b
SoloDifiereEstado(a, b, estado_a, estado_b) ==
    /\ Len(a) = Len(b)
    /\ \A n \in 1..Len(a) :
        \/ a[n] = b[n]
        \/ /\ a[n].estado = estado_a
           /\ b[n] = [a[n] EXCEPT !.estado = estado_b]

\* C5: Cancel and Return have the same preconditions and the same effect on
\* stock: from any state (in particular right after a Create) one succeeds
\* iff the other does, they leave the same inventory, and the resulting
\* states differ only in the recorded status (cancelado vs devuelto).
C5_CancelarComoDevolver ==
    /\ \A id \in AsigIds :
        LET d == proceso_devolucion(Actual, id)
            c == proceso_cancelacion(Actual, id)
        IN  /\ (d.salida = MSG_DEVUELTA) <=> (c.salida = MSG_CANCELADA)
            /\ (d.est = Actual) <=> (c.est = Actual)
            /\ d.est.coleccion = c.est.coleccion
            /\ d.ajuste = c.ajuste
            /\ [d.est EXCEPT !.lista = c.est.lista] = c.est
            /\ SoloDifiereEstado(d.est.lista, c.est.lista, "devuelto", "cancelado")
    /\ \A e \in EntradasCreacion :
        LET a == ResCreacion(Actual, e)
        IN  a.salida = MSG_CREADA =>
                /\ proceso_cancelacion(a.est, e[1]).salida = MSG_CANCELADA
                /\ proceso_cancelacion(a.est, e[1]).est.coleccion
                       = proceso_devolucion(a.est, e[1]).est.coleccion
                /\ proceso_cancelacion(a.est, e[1]).est.coleccion = coleccion

\* one assignment was cancelled, the other returned, a Create is possible
C5_Witness ==
    /\ \E n \in 1..Len(lista) : lista[n].estado = "cancelado"
    /\ \E n \in 1..Len(lista) : lista[n].estado = "activo"
    /\ \E k \in 1..Len(coleccion) : coleccion[k].stock > 0

\* C6: once the status of an assignment has left activo no operation
\* changes it again (the record stays where it is, with that status), and
\* a Return, Cancel or Extend of it fails and changes nothing, no stock in
\* particular.
C6_EstadoTerminalInmutable ==
    /\ [](\A n \in 1..Len(lista) :
            lista[n].estado # "activo" /\ buscar(Actual, lista[n].identificador) = n =>
                /\ proceso_devolucion(Actual, lista[n].identificador).est = Actual
                /\ proceso_devolucion(Actual, lista[n].identificador).salida
                       = MSG_NO_DEVOLVER
                /\ proceso_cancelacion(Actual, lista[n].identificador).est = Actual
                /\ proceso_cancelacion(Actual, lista[n].identificador).salida
                       = MSG_NO_ACTIVA
                /\ \A f \in FechasExtension :
                    proceso_extension(Actual, lista[n].identificador, f).est = Actual)
    /\ [][\A n \in 1..Len(lista) :
            lista[n].estado # "activo" =>
                /\ n <= Len(lista')
                /\ lista'[n].estado = lista[n].estado
                /\ lista'[n].identificador = lista[n].identificador]_vars

\* a closed assignment whose implement is in the inventory, so that a
\* second Return would have a stock to restore
C6_Witness ==
    \E n \in 1..Len(lista) :
        /\ lista[n].estado \in {"devuelto", "cancelado"}
        /\ buscar_por_id(Actual, lista[n].codigo_implemento) # 0

MiembroConocido(est, codigo) ==
    \E j \in 1..Len(est.registro) : est.registro[j].identificador = codigo

ImplementoConocido(est, codigo) ==
    \E k \in 1..Len(est.coleccion) : est.coleccion[k].identificador = codigo

Disponible(est, codigo, q) ==
    \E k \in 1..Len(est.coleccion) :
        /\ est.coleccion[k].identificador = codigo
        /\ est.coleccion[k].stock >= q
        /\ est.coleccion[k].condicion = "disponible"

\* the refusal the stated order of the precondition checks gives
PrimerFallo(est, e) ==
    IF e[1] \in est.ids_usados THEN MSG_DUPLICADO
    ELSE IF ~MiembroConocido(est, e[2]) THEN MSG_MIEMBRO
    ELSE IF ~ImplementoConocido(est, e[3]) THEN MSG_IMPLEMENTO
    ELSE IF e[4].val <= 0 THEN MSG_CANTIDAD
    ELSE IF ~Disponible(est, e[3], e[4].val) THEN MSG_STOCK
    ELSE IF ~validar_fecha(e[5]) \/ ~validar_fecha(e[6]) THEN MSG_FECHA
    ELSE MSG_CREADA

\* C7: Create checks its preconditions in the order id already used, member
\* unknown, implement unknown, quantity <= 0, no availability, malformed
\* date, and stops at the first that fails: an unknown member with
\* insufficient stock is refused as unknown member, a used id as duplicate
\* whatever else is wrong.
C7_OrdenDePrecondiciones ==
    \A e \in EntradasCreacion :
        e[4].tipo = "int" =>
            /\ ResCreacion(Actual, e).salida = PrimerFallo(Actual, e)
            /\ e[1] \in ids_usados => ResCreacion(Actual, e).salida = MSG_DUPLICADO
            /\ (e[1] \notin ids_usados /\ ~MiembroConocido(Actual, e[2])) =>
                   ResCreacion(Actual, e).salida = MSG_MIEMBRO

\* an id is in use and the member is unknown while the implement is there
\* without stock: requests wrong in three ways at once
C7_Witness ==
    /\ \E e \in EntradasCreacion :
        /\ e[1] \notin ids_usados /\ ~MiembroConocido(Actual, e[2])
        /\ ImplementoConocido(Actual, e[3]) /\ ~Disponible(Actual, e[3], e[4].val)
        /\ e[4].tipo = "int" /\ e[4].val > 0
        /\ ResCreacion(Actual, e).salida = MSG_MIEMBRO
    /\ \E e \in EntradasCreacion :
        /\ e[1] \in ids_usados /\ ~MiembroConocido(Actual, e[2])
        /\ e[4].tipo = "int" /\ e[4].val <= 0 /\ ~validar_fecha(e[6])
        /\ ResCreacion(Actual, e).salida = MSG_DUPLICADO

\* C8: a Create that fails for any reason (duplicate id, unknown member,
\* unknown implement, quantity not a positive number, insufficient stock or
\* implement not in available condition, malformed date) changes nothing:
\* no stock, not the assignment collection, not the set of used ids.
C8_CreacionFallidaSinEfecto ==
    \A e \in EntradasCreacion :
        LET r == ResCreacion(Actual, e)
        IN  /\ ~PeticionValida(Actual, e) =>
                /\ r.salida # MSG_CREADA
                /\ r.est = Actual
                /\ r.ajuste = "ninguno"
            /\ r.salida # MSG_CREADA => r.est = Actual

\* after a Create took part of the stock, a second Create asking for more
\* than what is left is refused for stock, the implement being available
C8_Witness ==
    \E n \in 1..Len(lista), k \in 1..Len(coleccion), e \in EntradasCreacion :
        /\ lista[n].estado = "activo"
        /\ lista[n].codigo_implemento = coleccion[k].identificador
        /\ coleccion[k].condicion = "disponible"
        /\ coleccion[k].stock = MaxStock - lista[n].unidades
        /\ coleccion[k].stock > 0
        /\ e[3] = coleccion[k].identificador
        /\ e[4].tipo = "int" /\ e[4].val > coleccion[k].stock
        /\ ResCreacion(Actual, e).salida = MSG_STOCK

\* C9: a successful Create decrements the stock of the referenced implement
\* by exactly the quantity (the decrement is accepted), appends exactly one
\* record, active, with the given member, implement, quantity and dates,
\* and adds the id to the set of used ids; nothing else changes.
C9_EfectoDeCreacion ==
    \A e \in EntradasCreacion :
        LET r == ResCreacion(Actual, e)
        IN  r.salida = MSG_CREADA =>
                /\ r.ajuste = "aplicado"
                /\ \E k \in 1..Len(coleccion) :
                    /\ coleccion[k].identificador = e[3]
                    /\ r.est.coleccion = [coleccion EXCEPT ![k].stock = @ - e[4].val]
                /\ r.est.lista =
                       Append(lista, [identificador |-> e[1], codigo_miembro |-> e[2],
                                      codigo_implemento |-> e[3], unidades |-> e[4].val,
                                      fecha_salida |-> e[5], fecha_retorno |-> e[6],
                                      estado |-> "activo"])
                /\ e[1] \notin ids_usados
                /\ r.est.ids_usados = ids_usados \cup {e[1]}
                /\ r.est.ids_en_uso = ids_en_uso
                /\ r.est.registro = registro
                /\ r.est.codigos_usados = codigos_usados

\* two active assignments hold all the stock of their implement, and a
\* Create has just been possible for the second
C9_Witness ==
    /\ Len(lista) = 2
    /\ lista[1].estado = "activo" /\ lista[2].estado = "activo"
    /\ lista[1].identificador # lista[2].identificador
    /\ ids_usados = {lista[1].identificador, lista[2].identificador}
    /\ \E k \in 1..Len(coleccion) :
        /\ coleccion[k].identificador = lista[2].codigo_implemento
        /\ coleccion[k].stock = 0
        /\ coleccion[k].condicion = "disponible"

\* C10: hay_disponibilidad(implement, q) is true iff stock >= q and the
\* condition is available; an implement that is loaned, damaged or in
\* maintenance is never available, whatever its stock, and a Create on it
\* is refused for stock.
C10_Disponibilidad ==
    /\ \A k \in 1..Len(coleccion), q \in (0 - 1)..(MaxStock + MaxQty) :
        /\ hay_disponibilidad(coleccion[k], q)
               <=> (coleccion[k].stock >= q /\ coleccion[k].condicion = "disponible")
        /\ coleccion[k].condicion \in {"prestado", "danado", "mantenimiento"}
               => ~hay_disponibilidad(coleccion[k], q)
    /\ \A e \in EntradasCreacion, k \in 1..Len(coleccion) :
        (/\ coleccion[k].identificador = e[3]
         /\ coleccion[k].condicion # "disponible"
         /\ e[1] \notin ids_usados /\ MiembroConocido(Actual, e[2])
         /\ e[4].tipo = "int" /\ e[4].val > 0)
            => ResCreacion(Actual, e).salida = MSG_STOCK

\* an implement in maintenance with stock for the largest request, and a
\* request on it that is refused
C10_Witness ==
    \E k \in 1..Len(coleccion), e \in EntradasCreacion :
        /\ coleccion[k].condicion = "mantenimiento"
        /\ coleccion[k].stock >= MaxQty
        /\ e[3] = coleccion[k].identificador
        /\ e[4].tipo = "int" /\ e[4].val \in 1..MaxQty
        /\ validar_fecha(e[5]) /\ validar_fecha(e[6])
        /\ ResCreacion(Actual, e).salida = MSG_STOCK

\* no record of the collection has that id
SinRegistro(id) == \A n \in 1..Len(lista) : lista[n].identificador # id

\* the record with that id is not active
RegistroCerrado(id) ==
    \E n \in 1..Len(lista) : lista[n].identificador = id /\ lista[n].estado # "activo"

\* C11: Return(id) and Cancel(id) fail when no assignment has that id and
\* when the assignment's status is not active, and in both cases no
\* assignment's status and no implement's stock changes.
C11_CierreRechazado ==
    \A id \in AsigIds :
        (SinRegistro(id) \/ RegistroCerrado(id)) =>
            LET d == proceso_devolucion(Actual, id)
                c == proceso_cancelacion(Actual, id)
            IN  /\ d.salida = MSG_NO_DEVOLVER
                /\ d.est.lista = lista /\ d.est.coleccion = coleccion
                /\ d.ajuste = "ninguno"
                /\ c.salida = MSG_NO_ACTIVA
                /\ c.est.lista = lista /\ c.est.coleccion = coleccion
                /\ c.ajuste = "ninguno"

\* one id was never used and the only record, closed, still has its
\* implement in the inventory: both failure cases are at hand
C11_Witness ==
    /\ Len(lista) = 1
    /\ lista[1].estado = "cancelado"
    /\ \E id \in AsigIds : SinRegistro(id)
    /\ buscar_por_id(Actual, lista[1].codigo_implemento) # 0

\* the active records whose implement is no longer in the inventory
Huerfanas ==
    {n \in 1..Len(lista) :
        /\ lista[n].estado = "activo"
        /\ \A k \in 1..Len(coleccion) :
               coleccion[k].identificador # lista[n].codigo_implemento}

\* C12: Return or Cancel of an active assignment whose implement id no
\* longer resolves to an implement of the inventory fails: the status stays
\* active and no stock changes; the record is never closed with its
\* restoration dropped.
C12_SinImplementoFalla ==
    \A n \in Huerfanas :
        LET d == proceso_devolucion(Actual, lista[n].identificador)
            c == proceso_cancelacion(Actual, lista[n].identificador)
        IN  /\ d.salida # MSG_DEVUELTA
            /\ d.est.lista[n].estado = "activo"
            /\ d.est.coleccion = coleccion
            /\ c.salida # MSG_CANCELADA
            /\ c.est.lista[n].estado = "activo"
            /\ c.est.coleccion = coleccion

\* an active assignment of the whole stock whose implement was removed
C12_Witness ==
    /\ coleccion = <<>>
    /\ \E n \in Huerfanas : lista[n].unidades = MaxQty

\* C13 as stated: when the implement lookup fails during Return or Cancel
\* of an active assignment, the restoration is skipped and the assignment
\* is nevertheless marked returned / cancelled.
C13_CierreSinRestaurar ==
    \A n \in Huerfanas :
        /\ proceso_devolucion(Actual, lista[n].identificador).est.lista[n].estado
               = "devuelto"
        /\ proceso_cancelacion(Actual, lista[n].identificador).est.lista[n].estado
               = "cancelado"

\* C13 amended: when the implement lookup fails during Return or Cancel of
\* an active assignment, ajustar_stock is not called, the error of the
\* operation is printed, nothing is logged and the whole state, the
\* assignment's status included, is left as it was.
C13_FalloSinCambio ==
    \A n \in Huerfanas :
        LET d == proceso_devolucion(Actual, lista[n].identificador)
            c == proceso_cancelacion(Actual, lista[n].identificador)
        IN  /\ d.salida = MSG_ERROR_DEVOLVER /\ c.salida = MSG_ERROR_CANCELAR
            /\ d.ajuste = "ninguno" /\ c.ajuste = "ninguno"
            /\ d.acciones = 0 /\ d.fallos = 0
            /\ c.acciones = 0 /\ c.fallos = 0
            /\ d.est = Actual /\ c.est = Actual

\* the implement of an active assignment was removed and registered again
\* and removed again, another record being closed meanwhile
C13_Witness ==
    /\ Huerfanas # {}
    /\ \E n \in 1..Len(lista) : lista[n].estado \in {"devuelto", "cancelado"}
    /\ ids_en_uso = {}

\* date a is strictly after date b on the calendar
Posterior(a, b) ==
    \/ a[1] > b[1]
    \/ a[1] = b[1] /\ a[2] > b[2]
    \/ a[1] = b[1] /\ a[2] = b[2] /\ a[3] > b[3]

\* C14: Extend(id, new_due_date) on an active assignment with a well-formed
\* date is rejected when new_due_date <= the current date_due (equal dates
\* included) and accepted when it is strictly later, date_due then becoming
\* new_due_date; a malformed date is rejected whatever its ordering, and
\* Extend on a missing or non-active assignment is rejected.
C14_Extension ==
    \A id \in AsigIds, f \in FechasExtension :
        LET r == proceso_extension(Actual, id, f)
        IN  /\ (SinRegistro(id) \/ RegistroCerrado(id)) =>
                   r.salida = MSG_NO_ACTIVA /\ r.est = Actual
            /\ \A n \in 1..Len(lista) :
                (lista[n].identificador = id /\ lista[n].estado = "activo") =>
                    IF ~validar_fecha(f)
                    THEN r.salida = MSG_FECHA_INVALIDA /\ r.est = Actual
                    ELSE IF Posterior(f, lista[n].fecha_retorno)
                    THEN /\ r.salida = MSG_EXTENDIDA
                         /\ r.est.lista = [lista EXCEPT ![n].fecha_retorno = f]
                         /\ r.est.lista # lista
                    ELSE r.salida = MSG_NO_POSTERIOR /\ r.est = Actual

\* two active assignments: one was extended and has an earlier and an equal
\* candidate, the other has an equal and a later one and malformed
\* candidates on both sides of its due date
C14_Witness ==
    /\ Len(lista) = 2
    /\ lista[1].estado = "activo" /\ lista[2].estado = "activo"
    /\ lista[1].fecha_retorno = FechaTxt(2025, 1, 15)
    /\ lista[2].fecha_retorno = FechaTxt(2025, 1, 10)
    /\ \E f \in FechasExtension :
           validar_fecha(f) /\ Posterior(lista[1].fecha_retorno, f)
    /\ \E f \in FechasExtension :
           validar_fecha(f) /\ Posterior(f, lista[2].fecha_retorno)
    /\ \E f \in FechasExtension :
           ~validar_fecha(f) /\ ~Posterior(f, lista[2].fecha_retorno)
    /\ \E f \in FechasExtension :
           ~validar_fecha(f) /\ Posterior(f, lista[2].fecha_retorno)

\* C15: Extend, whether it succeeds or fails, never changes any
\* assignment's status, quantity, member id or implement id nor any
\* implement's stock; a failed Extend also leaves date_due unchanged.
C15_MarcoDeExtension ==
    \A id \in AsigIds, f \in FechasExtension :
        LET r == proceso_extension(Actual, id, f)
        IN  /\ r.est.coleccion = coleccion
            /\ Len(r.est.lista) = Len(lista)
            /\ \A n \in 1..Len(lista) :
                /\ r.est.lista[n].estado = lista[n].estado
                /\ r.est.lista[n].unidades = lista[n].unidades
                /\ r.est.lista[n].codigo_miembro = lista[n].codigo_miembro
                /\ r.est.lista[n].codigo_implemento = lista[n].codigo_implemento
                /\ r.est.lista[n].identificador = lista[n].identificador
            /\ r.salida # MSG_EXTENDIDA =>
                \A n \in 1..Len(lista) :
                    r.est.lista[n].fecha_retorno = lista[n].fecha_retorno

\* an extended active assignment that holds part of the stock, beside a
\* closed one: an Extend of either has something it could disturb
C15_Witness ==
    \E n \in 1..Len(lista), j \in 1..Len(lista), k \in 1..Len(coleccion) :
        /\ lista[n].estado = "activo"
        /\ lista[n].fecha_retorno = FechaTxt(2025, 1, 15)
        /\ lista[j].estado = "devuelto"
        /\ coleccion[k].identificador = lista[n].codigo_implemento
        /\ coleccion[k].stock > 0

\* the records of lista that the overdue listing of that day shows
EnListado(est, hoy) ==
    {obtener_vencidas(est, hoy)[j].identificador :
        j \in 1..Len(obtener_vencidas(est, hoy))}

\* C16: IsOverdue(record, today) is true iff the record is active and
\* today is strictly after date_due on the calendar; an active assignment
\* due today is not overdue.
C16_Vencimiento ==
    \A n \in 1..Len(lista), hoy \in FechasHoy :
        /\ esta_vencido(lista[n], hoy)
               <=> (lista[n].estado = "activo" /\ Posterior(hoy, lista[n].fecha_retorno))
        /\ (lista[n].estado = "activo" /\ hoy = lista[n].fecha_retorno)
               => ~esta_vencido(lista[n], hoy)

\* an active assignment whose due date was extended to a day that is among
\* the reference days, with reference days before and after it
C16_Witness ==
    \E n \in 1..Len(lista) :
        /\ lista[n].estado = "activo"
        /\ lista[n].fecha_retorno = FechaTxt(2025, 1, 15)
        /\ lista[n].fecha_retorno \in FechasHoy
        /\ \E hoy \in FechasHoy : esta_vencido(lista[n], hoy)
        /\ \E hoy \in FechasHoy : hoy[1] < 2025 /\ hoy[3] > 15

\* C17: IsOverdue is false for every record that is not active, whatever
\* its dates: an overdue active assignment leaves the overdue listing in
\* the very step that returns or cancels it and never re-enters it.
C17_CerradaNuncaVencida ==
    /\ [](\A n \in 1..Len(lista), hoy \in FechasHoy :
            lista[n].estado # "activo" =>
                /\ ~esta_vencido(lista[n], hoy)
                /\ lista[n].identificador \notin EnListado(Actual, hoy))
    /\ [][\A n \in 1..Len(lista) :
            (\/ lista[n].estado # "activo"
             \/ n <= Len(lista') /\ lista'[n].estado # "activo") =>
                /\ n <= Len(lista')
                /\ \A hoy \in FechasHoy : ~esta_vencido(lista'[n], hoy)]_vars

\* a closed assignment whose due date is before some reference days
\* beside an active one that is overdue on those days
C17_Witness ==
    \E n \in 1..Len(lista), j \in 1..Len(lista), hoy \in FechasHoy :
        /\ lista[n].estado \in {"devuelto", "cancelado"}
        /\ Posterior(hoy, lista[n].fecha_retorno)
        /\ lista[j].estado = "activo"
        /\ esta_vencido(lista[j], hoy)

\* C18: overdue is never a stored status: the status of every record is
\* one of activo, devuelto, cancelado after any sequence of operations,
\* and evaluating the overdue listing, on any day, changes no state.
C18_VencidoNoSeGuarda ==
    /\ [](/\ \A n \in 1..Len(lista) :
               lista[n].estado \in {"activo", "devuelto", "cancelado"}
          /\ \A hoy \in FechasHoy : mostrar_vencidas(Actual, hoy).est = Actual)
    /\ [][VerVencidas => UNCHANGED vars]_vars

\* the listing of some day shows an active assignment past its due date
C18_Witness ==
    \E hoy \in FechasHoy :
        /\ mostrar_vencidas(Actual, hoy).salida = MSG_VENCIDAS
        /\ \E n \in 1..Len(lista) :
            /\ lista[n].estado = "activo"
            /\ Posterior(hoy, lista[n].fecha_retorno)
            /\ lista[n].identificador \in EnListado(Actual, hoy)

\* C19: assignment ids are unique: in every reachable state, the state
\* right after loading the stored records included, no two records of the
\* collection share an id, a Create with a used id fails leaving the
\* collection unchanged, and the set of used ids is the set of the ids of
\* the records.
C19_IdsUnicos ==
    /\ \A n \in 1..Len(lista), j \in 1..Len(lista) :
           lista[n].identificador = lista[j].identificador => n = j
    /\ ids_usados = {lista[n].identificador : n \in 1..Len(lista)}
    /\ \A e \in EntradasCreacion :
           e[1] \in ids_usados =>
               /\ ResCreacion(Actual, e).salida = MSG_DUPLICADO
               /\ ResCreacion(Actual, e).est.lista = lista

\* C20: assignment records are never physically deleted: in every step the
\* collection keeps every record at its position, with its id, member,
\* implement, quantity and date of issue, grows by at most one record at
\* its end, and no used id is released.
C20_NuncaSeBorra ==
    [][/\ Len(lista') \in {Len(lista), Len(lista) + 1}
       /\ \A n \in 1..Len(lista) :
           /\ lista'[n].identificador = lista[n].identificador
           /\ lista'[n].codigo_miembro = lista[n].codigo_miembro
           /\ lista'[n].codigo_implemento = lista[n].codigo_implemento
           /\ lista'[n].unidades = lista[n].unidades
           /\ lista'[n].fecha_salida = lista[n].fecha_salida
       /\ ids_usados \subseteq ids_usados'
      ]_vars

\* two records, the first closed and the second active, outlive the
\* removal of their implement and the departure of their member
C20_Witness ==
    /\ Len(lista) = 2
    /\ lista[1].estado \in {"devuelto", "cancelado"}
    /\ lista[2].estado = "activo"
    /\ coleccion = <<>>
    /\ registro = <<>>
    /\ Cardinality(ids_usados) = 2

\* C21: every assignment of the collection has quantity > 0 in every
\* reachable state, the records loaded from the store like those made by
\* Create.
C21_CantidadPositiva ==
    \A n \in 1..Len(lista) : lista[n].unidades > 0

\* C24: no record with a date that is not a valid calendar date ever
\* exists in the collection: Create and Extend reject a malformed date
\* and no other path stores a date.
C24_FechasValidas ==
    \A n \in 1..Len(lista) :
        validar_fecha(lista[n].fecha_salida) /\ validar_fecha(lista[n].fecha_retorno)

\* C25: the program never raises because of a malformed stored record:
\* such a line is skipped at load, so that no later operation on the loaded
\* collection (the overdue listing, Extend) ends in an exception.
C25_NuncaLanza == ~caido

\* C22: no assignment operation (Create, Return, Cancel, Extend, the
\* listings) adds, removes or modifies a member of the registry.
C22_RegistroIntacto ==
    LET mismo(r) == r.est.registro = registro /\ r.est.codigos_usados = codigos_usados
    IN  /\ \A e \in EntradasCreacion : mismo(ResCreacion(Actual, e))
        /\ \A id \in AsigIds :
            /\ mismo(proceso_devolucion(Actual, id))
            /\ mismo(proceso_cancelacion(Actual, id))
            /\ \A f \in FechasExtension : mismo(proceso_extension(Actual, id, f))
        /\ \A hoy \in FechasHoy : mismo(mostrar_vencidas(Actual, hoy))
        /\ mismo(listar_todas(Actual))

\* the registry is empty while an assignment of a member who left is still
\* active and a Create naming that member can be typed
C22_Witness ==
    /\ registro = <<>>
    /\ \E n \in 1..Len(lista) :
           lista[n].estado = "activo" /\ lista[n].codigo_miembro \in MiembroIds
    /\ \E e \in EntradasCreacion :
           e[1] \notin ids_usados /\ ResCreacion(Actual, e).salida = MSG_MIEMBRO

\* r holds exactly the elements of s that satisfy P, in the order of s
EsFiltro(r, s, P(_)) ==
    LET I == {n \in 1..Len(s) : P(s[n])}
    IN  /\ Len(r) = Cardinality(I)
        /\ \A k \in I : r[Cardinality({i \in I : i <= k})] = s[k]

\* what the engine holds after the caller of a query appends x to the list
\* object it received
TrasAppend(est, objeto, x) ==
    IF objeto = "lista" THEN [est EXCEPT !.lista = Append(@, x)] ELSE est

\* C23: the four queries (all, active, overdue, of a member in any status)
\* change no state, each returns exactly the records that satisfy its
\* filter, in insertion order, and the list returned by list-all is a
\* snapshot: modifying it does not alter the collection of the engine.
C23_Consultas ==
    LET todas(a) == TRUE
        activa(a) == a.estado = "activo"
    IN  /\ EsFiltro(obtener_todas(Actual).elementos, lista, todas)
        /\ obtener_todas(Actual).elementos = lista
        /\ \A n \in 1..Len(lista) :
               TrasAppend(Actual, obtener_todas(Actual).objeto, lista[n]) = Actual
        /\ EsFiltro(obtener_activas(Actual), lista, activa)
        /\ \A hoy \in FechasHoy :
               LET vencida(a) == a.estado = "activo" /\ Posterior(hoy, a.fecha_retorno)
               IN  EsFiltro(obtener_vencidas(Actual, hoy), lista, vencida)
        /\ \A m \in MiembroIds \cup {"M0"} :
               LET suya(a) == a.codigo_miembro = m
               IN  EsFiltro(obtener_por_miembro(Actual, m), lista, suya)
        /\ listar_todas(Actual).est = Actual
        /\ \A hoy \in FechasHoy : mostrar_vencidas(Actual, hoy).est = Actual

\* a closed record comes before an active one that is overdue on some day:
\* the filters drop the first and keep the second
C23_Witness ==
    /\ Len(lista) = 2
    /\ lista[1].estado = "devuelto"
    /\ lista[2].estado = "activo"
    /\ Len(obtener_activas(Actual)) = 1
    /\ \E hoy \in FechasHoy : Len(obtener_vencidas(Actual, hoy)) = 1
    /\ Len(obtener_por_miembro(Actual, lista[1].codigo_miembro)) = 2

\* the active records whose member is no longer in the registry
SinMiembro ==
    {n \in 1..Len(lista) :
        /\ lista[n].estado = "activo"
        /\ \A j \in 1..Len(registro) :
               registro[j].identificador # lista[n].codigo_miembro}

\* C27: removing a member who has active assignments is permitted and
\* leaves those assignments unchanged; afterwards the queries and Return,
\* Cancel and Extend on them still work, none raising, the missing member
\* being shown as the unknown placeholder.
C27_MiembroAusente ==
    /\ \A m \in MiembroIds :
        MiembroConocido(Actual, m) =>
            /\ flujo_baja(Actual, m, "s").salida = "Miembro dado de baja"
            /\ ~MiembroConocido(flujo_baja(Actual, m, "s").est, m)
            /\ flujo_baja(Actual, m, "s").est.lista = lista
    /\ \A n \in SinMiembro :
        LET id == lista[n].identificador
            d == proceso_devolucion(Actual, id)
            c == proceso_cancelacion(Actual, id)
            x == proceso_extension(Actual, id, FechaTxt(2025, 1, 15))
        IN  /\ listar_todas(Actual).salida = MSG_LISTADO
            /\ listar_todas(Actual).filas[n].nombre_m = DESCONOCIDO
            /\ listar_todas(Actual).filas[n].identificador = id
            /\ \E j \in 1..Len(obtener_activas(Actual)) : obtener_activas(Actual)[j] = lista[n]
            /\ \E j \in 1..Len(obtener_por_miembro(Actual, lista[n].codigo_miembro)) :
                   obtener_por_miembro(Actual, lista[n].codigo_miembro)[j] = lista[n]
            /\ \A hoy \in FechasHoy : mostrar_vencidas(Actual, hoy).salida # EXC_VALUE_ERROR
            /\ ImplementoConocido(Actual, lista[n].codigo_implemento) =>
                   /\ d.salida = MSG_DEVUELTA /\ d.est.lista[n].estado = "devuelto"
                   /\ c.salida = MSG_CANCELADA /\ c.est.lista[n].estado = "cancelado"
            /\ Posterior(FechaTxt(2025, 1, 15), lista[n].fecha_retorno) =>
                   x.salida = MSG_EXTENDIDA
            /\ x.salida \in {MSG_EXTENDIDA, MSG_NO_POSTERIOR}

\* the member left while two assignments of theirs were active, the
\* implement still being in the inventory
C27_Witness ==
    /\ Cardinality(SinMiembro) = 2
    /\ registro = <<>>
    /\ \A n \in SinMiembro : ImplementoConocido(Actual, lista[n].codigo_implemento)

\* C26: a successful Create produces exactly one log entry (one call of
\* registrar_accion).
C26_UnaEntradaDeRegistro ==
    \A e \in EntradasCreacion :
        ResCreacion(Actual, e).salida = MSG_CREADA => ResCreacion(Actual, e).acciones = 1

\* C28: a persist call attempts the three formats independently: a format
\* whose write fails is reported false in the returned map and left
\* unwritten, every other format is written with all the records and
\* reported true, and no record and no stock in memory changes.
C28_PersistenciaPorFormato ==
    \A fallan \in SUBSET Formatos :
        LET r == persistir(Actual, fallan)
        IN  /\ \A f \in Formatos :
                /\ r.resultado[f] = (f \notin fallan)
                /\ r.archivos[f].escrito = (f \notin fallan)
                /\ f \notin fallan =>
                       /\ Len(r.archivos[f].datos) = Len(lista)
                       /\ \A n \in 1..Len(lista) :
                              /\ r.archivos[f].datos[n].id = lista[n].identificador
                              /\ r.archivos[f].datos[n].estado = lista[n].estado
                              /\ r.archivos[f].datos[n].unidades = lista[n].unidades
            /\ guardar_cambios(Actual, fallan).est = Actual
            /\ guardar_cambios(Actual, fallan).resultado = r.resultado
            /\ (guardar_cambios(Actual, fallan).salida = MSG_GUARDADO) <=> (fallan = {})

\* there is something to save: an active and a closed record and an
\* implement with part of its stock on loan
C28_Witness ==
    /\ Len(lista) = 2
    /\ lista[1].estado = "cancelado"
    /\ lista[2].estado = "activo"
    /\ \E k \in 1..Len(coleccion) : coleccion[k].stock = 1
    /\ \E fallan \in SUBSET Formatos :
           /\ persistir(Actual, fallan).resultado["txt"] = FALSE
           /\ persistir(Actual, fallan).archivos["csv"].datos # <<>>

\* the entries a ranking must have, stated from the collection: claves is
\* the sequence of the ids the assignments reference, in collection order
Cuenta(claves, id) == Cardinality({n \in 1..Len(claves) : claves[n] = id})

PrimeraVez(claves, id) == CHOOSE n \in 1..Len(claves) : claves[n] = id /\ \A m \in 1..(n - 1) : claves[m] # id

VaAntes(claves, a, b) ==
    \/ Cuenta(claves, a) > Cuenta(claves, b)
    \/ Cuenta(claves, a) = Cuenta(claves, b) /\ PrimeraVez(claves, a) < PrimeraVez(claves, b)

EsRanking(ranking, claves) ==
    LET ids == {claves[n] : n \in 1..Len(claves)}
        listados == {ranking[i].clave : i \in 1..Len(ranking)}
    IN  /\ Len(ranking) = IF Cardinality(ids) < 10 THEN Cardinality(ids) ELSE 10
        /\ \A i \in 1..Len(ranking) :
               /\ ranking[i].clave \in ids
               /\ ranking[i].cuenta = Cuenta(claves, ranking[i].clave)
        /\ \A i, j \in 1..Len(ranking) :
               i < j => VaAntes(claves, ranking[i].clave, ranking[j].clave)
        /\ \A id \in ids \ listados : \A i \in 1..Len(ranking) :
               VaAntes(claves, ranking[i].clave, id)

\* C29: the implement ranking and the member ranking list (id, count)
\* pairs, count being the number of assignments of any status that
\* reference the id, by descending count, equal counts in the order in which
\* the ids first appear in the collection, and at most the first 10.
C29_Rankings ==
    /\ EsRanking(implementos_populares(Actual),
                 [n \in 1..Len(lista) |-> lista[n].codigo_implemento])
    /\ EsRanking(miembros_activos(Actual),
                 [n \in 1..Len(lista) |-> lista[n].codigo_miembro])

\* more than 10 implements referenced, the ranking cut at 10, a strict
\* descent and a tie in it, and assignments that are not active counted
C29_Witness ==
    /\ Cardinality({lista[n].codigo_implemento : n \in 1..Len(lista)}) > 10
    /\ Len(implementos_populares(Actual)) = 10
    /\ implementos_populares(Actual)[1].cuenta > implementos_populares(Actual)[2].cuenta
    /\ implementos_populares(Actual)[2].cuenta = implementos_populares(Actual)[3].cuenta
    /\ \E n \in 1..Len(lista) :
           /\ lista[n].estado # "activo"
           /\ lista[n].codigo_implemento = implementos_populares(Actual)[1].clave
    /\ \E i \in 1..Len(miembros_activos(Actual)) :
           i > 1 /\ miembros_activos(Actual)[i].cuenta = miembros_activos(Actual)[i - 1].cuenta

\* units of the implement out on active assignments
RECURSIVE EnPrestamo(_, _)
EnPrestamo(asigs, codigo_impl) ==
    IF asigs = <<>> THEN 0
    ELSE (IF Head(asigs).estado = "activo" /\ Head(asigs).codigo_implemento = codigo_impl
          THEN Head(asigs).unidades ELSE 0) + EnPrestamo(Tail(asigs), codigo_impl)

\* stock of each implement plus its units on active loan
Existencias ==
    [k \in 1..Len(coleccion) |->
        coleccion[k].stock + EnPrestamo(lista, coleccion[k].identificador)]

\* C30: with the inventory neither edited nor removed, under Create,
\* Return, Cancel and Extend the stock of an implement plus the units of
\* the active assignments referencing it stays what the stock was when no
\* assignment existed; so the units on active loan never exceed that
\* initial stock.
C30_ConservacionDeStock ==
    /\ lista = <<>>
    /\ [][Existencias' = Existencias]_vars
    /\ [](\A k \in 1..Len(coleccion) :
            /\ coleccion[k].stock >= 0
            /\ EnPrestamo(lista, coleccion[k].identificador) <= Existencias[k])

\* two units were lent in two assignments, one came back and one is out
C30_Witness ==
    /\ Len(lista) = 2
    /\ lista[1].estado = "devuelto"
    /\ lista[2].estado = "activo"
    /\ coleccion[1].stock = 1
    /\ EnPrestamo(lista, "T1") = 1
    /\ Existencias[1] = 2

\* the ways of typing a registration that the screen accepts
AltasValidas ==
    {a \in TextosStockAlta \X OpcionesEstado :
        a[1].tipo = "int" /\ a[1].val >= 0}

\* the active records whose implement is in the inventory
ConImplemento ==
    {n \in 1..Len(lista) :
        /\ lista[n].estado = "activo"
        /\ buscar_por_id(Actual, lista[n].codigo_implemento) # 0}

\* what C31 says of the active record n from the removal of its implement on
C31_Escenario(n) ==
    LET id == lista[n].codigo_implemento
        e == proceso_eliminacion(Actual, id, "s")
        d == proceso_devolucion(e.est, lista[n].identificador)
        c == proceso_cancelacion(e.est, lista[n].identificador)
    IN  /\ buscar_por_id(e.est, id) = 0
        /\ id \notin e.est.ids_en_uso
        /\ e.est.lista = lista
        /\ d.est = e.est /\ d.salida = MSG_ERROR_DEVOLVER
        /\ c.est = e.est /\ c.salida = MSG_ERROR_CANCELAR
        /\ \A a \in AltasValidas :
            LET r == impl_proceso_creacion(e.est, id, a[1], a[2], Texto("int", 10))
                k == buscar_por_id(r.est, id)
                d2 == proceso_devolucion(r.est, lista[n].identificador)
                c2 == proceso_cancelacion(r.est, lista[n].identificador)
            IN  /\ k # 0
                /\ r.est.coleccion[k].stock = a[1].val
                /\ r.est.lista = lista
                /\ d2.salida = MSG_DEVUELTA
                /\ d2.est.lista[n].estado = "devuelto"
                /\ d2.est.coleccion[k].stock = a[1].val + lista[n].unidades
                /\ c2.salida = MSG_CANCELADA
                /\ c2.est.lista[n].estado = "cancelado"
                /\ c2.est.coleccion[k].stock = a[1].val + lista[n].unidades

\* C31: an implement can be removed while active assignments reference it,
\* and its id is then free; while the id resolves to no implement those
\* assignments stay active, every Return and Cancel on them failing; once an
\* implement is registered again under the id, Return and Cancel of the old
\* assignment succeed and add its quantity to the stock the new implement
\* was registered with.
C31_EliminarYRegistrarDeNuevo ==
    /\ [](\A n \in ConImplemento : C31_Escenario(n))
    /\ [][\A n \in Huerfanas : lista'[n].estado = "activo"]_vars

\* the implement came back under its id with the whole stock while the
\* whole stock was out, and the old assignment was then closed
C31_Witness ==
    /\ Len(lista) = 1
    /\ lista[1].estado \in {"devuelto", "cancelado"}
    /\ lista[1].unidades = MaxQty
    /\ Len(coleccion) = 1
    /\ coleccion[1].stock = MaxStock + MaxQty

\* C32: Return and Cancel do not look at the implement's condition: an
\* active assignment whose implement exists with stock >= 0 is returned or
\* cancelled whatever the condition, its quantity going back to the stock
\* and the rest of the implement, its condition included, staying as it
\* was; a Create on an implement that is not in available condition is
\* refused and changes nothing.
C32_SinMirarCondicion ==
    /\ \A n \in ConImplemento :
        LET k == buscar_por_id(Actual, lista[n].codigo_implemento)
            d == proceso_devolucion(Actual, lista[n].identificador)
            c == proceso_cancelacion(Actual, lista[n].identificador)
        IN  coleccion[k].stock >= 0 =>
                /\ d.salida = MSG_DEVUELTA
                /\ d.est.lista[n].estado = "devuelto"
                /\ d.est.coleccion = [coleccion EXCEPT ![k].stock = @ + lista[n].unidades]
                /\ c.salida = MSG_CANCELADA
                /\ c.est.lista[n].estado = "cancelado"
                /\ c.est.coleccion = [coleccion EXCEPT ![k].stock = @ + lista[n].unidades]
    /\ \A e \in EntradasCreacion :
        LET k == buscar_por_id(Actual, e[3])
        IN  (k # 0 /\ coleccion[k].condicion # "disponible") =>
                /\ ResCreacion(Actual, e).salida # MSG_CREADA
                /\ ResCreacion(Actual, e).est = Actual

\* the implement is in maintenance with stock left, one of its assignments
\* is still active and another one was closed
C32_Witness ==
    /\ Len(coleccion) = 1
    /\ coleccion[1].condicion = "mantenimiento"
    /\ coleccion[1].stock = 1
    /\ Len(lista) = 2
    /\ lista[1].estado = "activo"
    /\ lista[2].estado = "devuelto"
    /\ ConImplemento = {1}

\* C33: the due date of a record never moves backwards: in every step
\* fecha_salida stays and fecha_retorno stays or becomes strictly later,
\* which it does only in a step of Extend; every successful Extend makes
\* it strictly later; an active assignment that is overdue can be extended
\* to any well-formed later date, and after a successful Extend to a date
\* that is not before today it is not overdue.
C33_RetornoNoRetrocede ==
    /\ [][\A n \in 1..Len(lista) :
            /\ n <= Len(lista')
            /\ lista'[n].fecha_salida = lista[n].fecha_salida
            /\ \/ lista'[n].fecha_retorno = lista[n].fecha_retorno
               \/ /\ Posterior(lista'[n].fecha_retorno, lista[n].fecha_retorno)
                  /\ Extender]_vars
    /\ [](\A id \in AsigIds, f \in FechasExtension :
            LET r == proceso_extension(Actual, id, f)
                n == buscar(Actual, id)
            IN  /\ r.salida = MSG_EXTENDIDA =>
                       /\ Posterior(r.est.lista[n].fecha_retorno, lista[n].fecha_retorno)
                       /\ \A hoy \in FechasHoy :
                              comparar_fechas(f, hoy) >= 0 => ~esta_vencido(r.est.lista[n], hoy)
                /\ (/\ n # 0
                    /\ lista[n].estado = "activo"
                    /\ \E hoy \in FechasHoy : esta_vencido(lista[n], hoy)
                    /\ validar_fecha(f)
                    /\ Posterior(f, lista[n].fecha_retorno)) =>
                       r.salida = MSG_EXTENDIDA)

\* the only record was extended to 2025-01-15: it was overdue on
\* 2025-01-11 and is not any more, and on 2025-01-16 it is overdue again
C33_Witness ==
    /\ Len(lista) = 1
    /\ lista[1].estado = "activo"
    /\ lista[1].fecha_salida = FechaTxt(2025, 1, 10)
    /\ lista[1].fecha_retorno = FechaTxt(2025, 1, 15)
    /\ ~esta_vencido(lista[1], FechaTxt(2025, 1, 11))
    /\ esta_vencido([lista[1] EXCEPT !.fecha_retorno = FechaTxt(2025, 1, 10)], FechaTxt(2025, 1, 11))
    /\ esta_vencido(lista[1], FechaTxt(2025, 1, 16))

\* the records the engine calls overdue on that day, in collection order
VencidasDelMotor(hoy) ==
    LET vence(a) == esta_vencido(a, hoy)
    IN  SelectSeq(lista, vence)

RECURSIVE SumaUnidades(_)
SumaUnidades(asigs) ==
    IF asigs = <<>> THEN 0 ELSE Head(asigs).unidades + SumaUnidades(Tail(asigs))

\* C34: the standalone report and the engine call the same records
\* overdue: on every reference date the report lists a stored assignment
\* iff esta_vencido holds for it (active and due strictly before that day),
\* and its total of committed units is the sum of the quantities of
\* exactly those records.
C34_ReporteComoElMotor ==
    \A hoy \in FechasHoy :
        LET r == reporte_de(Actual, hoy)
            listados == {r.vencidos[j].id : j \in 1..Len(r.vencidos)}
        IN  /\ r.salida # EXC_VALUE_ERROR
            /\ \A n \in 1..Len(lista) :
                   lista[n].identificador \in listados <=> esta_vencido(lista[n], hoy)
            /\ Len(r.vencidos) = Len(VencidasDelMotor(hoy))
            /\ r.total = SumaUnidades(VencidasDelMotor(hoy))
            /\ r.archivo <=> VencidasDelMotor(hoy) # <<>>

\* two active assignments of one unit, the first extended to 2025-01-15:
\* on 2025-01-11 the report lists the second alone, on 2025-01-16 both,
\* on 2025-01-10 none
C34_Witness ==
    /\ Len(lista) = 2
    /\ lista[1].estado = "activo" /\ lista[2].estado = "activo"
    /\ lista[1].fecha_retorno = FechaTxt(2025, 1, 15)
    /\ reporte_de(Actual, FechaTxt(2025, 1, 11)).total = 1
    /\ reporte_de(Actual, FechaTxt(2025, 1, 11)).vencidos[1].id = lista[2].identificador
    /\ reporte_de(Actual, FechaTxt(2025, 1, 16)).total = 2
    /\ reporte_de(Actual, FechaTxt(2025, 1, 10)).archivo = FALSE

\* the ids of the entities of a collection
IdsDe(entidades) == {entidades[k].identificador : k \in 1..Len(entidades)}

SinRepetidos(entidades) ==
    \A i, j \in 1..Len(entidades) :
        entidades[i].identificador = entidades[j].identificador => i = j

\* C35: in the inventory and in the member registry, after any sequence
\* of register / edit / remove operations, the set of ids in use is the set
\* of ids of the entities of the collection and no two entities share an
\* id; registering an id in use fails and changes nothing, removing an
\* entity takes its id out of the set and leaves the other entities, and
\* removing or editing an id that is not there fails and changes nothing.
C35_IdsEnUso ==
    /\ ids_en_uso = IdsDe(coleccion) /\ SinRepetidos(coleccion)
    /\ codigos_usados = IdsDe(registro) /\ SinRepetidos(registro)
    /\ \A id \in IdsInventario :
        IF id \in IdsDe(coleccion)
        THEN /\ agregar_nuevo(Actual, Implemento(id, 1, "disponible")).ret = FALSE
             /\ agregar_nuevo(Actual, Implemento(id, 1, "disponible")).est = Actual
             /\ \A c \in TextosStockAlta, o \in OpcionesEstado, v \in TextosValor :
                    impl_proceso_creacion(Actual, id, c, o, v).est = Actual
             /\ eliminar_del_sistema(Actual, id).ret = TRUE
             /\ eliminar_del_sistema(Actual, id).est.ids_en_uso = ids_en_uso \ {id}
             /\ IdsDe(eliminar_del_sistema(Actual, id).est.coleccion) = ids_en_uso \ {id}
             /\ \A k \in 1..Len(coleccion) : coleccion[k].identificador # id =>
                    \E j \in 1..Len(coleccion) :
                        eliminar_del_sistema(Actual, id).est.coleccion[j] = coleccion[k]
        ELSE /\ eliminar_del_sistema(Actual, id).ret = FALSE
             /\ eliminar_del_sistema(Actual, id).est = Actual
             /\ proceso_eliminacion(Actual, id, "s").est = Actual
             /\ \A t \in TextosStockEdicion, o \in OpcionesEstado :
                    /\ proceso_modificacion(Actual, id, t, o).est = Actual
                    /\ modificar_existente(Actual, id, [claves |-> {"stock", "condicion"}, stock |-> 1, condicion |-> "danado"]).ret = FALSE
                    /\ modificar_existente(Actual, id, [claves |-> {"stock", "condicion"}, stock |-> 1, condicion |-> "danado"]).est = Actual
    /\ \A m \in IdsRegistro :
        IF m \in IdsDe(registro)
        THEN /\ inscribir(Actual, Miembro(m, "residente")).ret = FALSE
             /\ inscribir(Actual, Miembro(m, "residente")).est = Actual
             /\ \A t \in TiposMiembro : flujo_inscripcion(Actual, m, t).est = Actual
             /\ dar_de_baja(Actual, m).ret = TRUE
             /\ dar_de_baja(Actual, m).est.codigos_usados = codigos_usados \ {m}
             /\ IdsDe(dar_de_baja(Actual, m).est.registro) = codigos_usados \ {m}
             /\ \A k \in 1..Len(registro) : registro[k].identificador # m =>
                    \E j \in 1..Len(registro) :
                        dar_de_baja(Actual, m).est.registro[j] = registro[k]
        ELSE /\ dar_de_baja(Actual, m).ret = FALSE
             /\ dar_de_baja(Actual, m).est = Actual
             /\ flujo_baja(Actual, m, "s").est = Actual
             /\ \A t \in TiposMiembro :
                    /\ flujo_actualizacion(Actual, m, t).est = Actual
                    /\ actualizar_info(Actual, m, [claves |-> {"rol"}, rol |-> rol_de(t)]).ret = FALSE
                    /\ actualizar_info(Actual, m, [claves |-> {"rol"}, rol |-> rol_de(t)]).est = Actual

\* both collections hold their two entities in the order that only a
\* removal and a second registration give, the first implement with an
\* edited stock and the first member with the role of administrator
C35_Witness ==
    /\ Len(coleccion) = 2 /\ Len(registro) = 2
    /\ coleccion[1].identificador = "T2" /\ coleccion[2].identificador = "T1"
    /\ coleccion[1].stock < 0
    /\ coleccion[2].condicion = "mantenimiento"
    /\ registro[1].identificador = "M2" /\ registro[2].identificador = "M1"
    /\ registro[1].rol = "administrador" /\ registro[2].rol = "residente"
    /\ ids_en_uso = IdsInventario /\ codigos_usados = IdsRegistro

\* records of every kind handed to crear: members and implements that
\* exist or not, quantities below 1 and above any stock, dates that are
\* no dates, any status
RegistrosCualesquiera ==
    {Asignacion(id, m, i, u, f, f, e) :
        id \in AsigIds, m \in {"M1", "M0"}, i \in {"T1", "T0"},
        u \in {0 - 1, 0, 1, MaxStock + 1}, f \in FechasRetorno, e \in {"activo", "devuelto"}}

\* C36: crear of the engine checks the id alone: a record whose id is not
\* in use is appended and True returned whatever its member, implement,
\* quantity, dates and the stock, a record whose id is in use is refused,
\* and in neither case is the inventory touched; within a Create the
\* record is in the collection before the stock is adjusted, the
\* adjustment being made by proceso_creacion after crear returned True.
C36_CrearSoloMiraElId ==
    /\ [](\A asig \in RegistrosCualesquiera :
            IF asig.identificador \in ids_usados
            THEN crear(Actual, asig).ret = FALSE /\ crear(Actual, asig).est = Actual
            ELSE /\ crear(Actual, asig).ret = TRUE
                 /\ crear(Actual, asig).est =
                        [Actual EXCEPT !.lista = Append(lista, asig),
                                       !.ids_usados = ids_usados \cup {asig.identificador}])
    /\ [](pendiente = <<>> => \A e \in EntradasCreacion :
            LET h == proceso_creacion_hasta_crear(Actual, e[1], e[2], e[3], e[4], e[5], e[6])
                r == ResCreacion(Actual, e)
            IN  IF h.pendiente = <<>>
                THEN r.salida = h.salida /\ r.est = h.est /\ h.est = Actual
                ELSE /\ r.salida = MSG_CREADA
                     /\ proceso_creacion_tras_crear(h.est, h.pendiente[1]).est = r.est
                     /\ h.acciones + 1 = r.acciones)
    /\ [][pendiente' # <<>> =>
            /\ lista' = Append(lista, pendiente'[1])
            /\ coleccion' = coleccion]_vars
    /\ [][pendiente # <<>> =>
            /\ lista' = lista
            /\ lista[Len(lista)] = pendiente[1]
            /\ coleccion' = [coleccion EXCEPT ![buscar_por_id(Actual, pendiente[1].codigo_implemento)].stock = @ - pendiente[1].unidades]]_vars

\* crear has returned and the record of the whole stock is the second of
\* the collection while the stock is still whole
C36_Witness ==
    /\ pendiente # <<>>
    /\ Len(lista) = 2
    /\ lista[2] = pendiente[1]
    /\ lista[2].unidades = MaxStock
    /\ coleccion[1].stock = MaxStock
    /\ lista[1].estado = "cancelado"

====
